---- MODULE Spec2Model ----
(***************************************************************************)
(* Batch analysis and late-fusion orchestration of the tomato assistant    *)
(* backend: the persistence gateway (storageService.js), the inference     *)
(* invoker (mlService.js) and the batch orchestrator (routes/analysis.js). *)
(*                                                                         *)
(* The backend is a Node.js (v16+) process: one thread, callbacks run to   *)
(* completion, and the continuation of an await on an already settled      *)
(* promise (a microtask) runs before any timer or I/O callback.  Positions *)
(* that are such continuations are listed in Micro; every other action is  *)
(* a timer, an I/O callback or an incoming request and waits for them.     *)
(***************************************************************************)
EXTENDS Integers, Sequences, FiniteSets, TLC

(***************************************************************************)
(* Bounds of the model.                                                    *)
(***************************************************************************)
MaxOps == 1
MaxRetriesBound == 3
MaxReinits == 1
MaxInvocations == 2
MaxNames == 2
MaxImages == 2
MaxStrLen == 3
MaxRecs == 3
MaxHistory == 2

(***************************************************************************)
(* PERSISTENCE GATEWAY  (storageService.js, supabaseService = part_000)    *)
(***************************************************************************)
VARIABLES
    ready,          \* StorageService.ready
    initializing,   \* StorageService.initializing
    supa,           \* SupabaseService: "testing" | "ok" | "failed"
    inflight,       \* callers whose initialize() is between line 16 and line 35
    pc,             \* position of every caller
    ipc,            \* position of a caller inside initialize(): "idle" | "fast" | "poll"
    expired,        \* Date.now() - startTime >= maxWaitTime, per waitForReady call
    maxRetries,     \* the maxRetries argument of _executeWithRetry
    attempt,        \* the loop variable of _executeWithRetry
    calls,          \* number of times operation() was invoked
    failures,       \* number of attempts that threw
    lastError,      \* the lastError local of _executeWithRetry
    outcome,        \* how _executeWithRetry ended
    startReady,     \* value of ready when the latest attempt started
    lastInitCall,   \* branch taken by the caller's latest initialize(): "none" | "started" | "collapsed"
    reinits         \* number of reinitialize() calls made so far

gwVars == <<ready, initializing, supa, inflight, pc, ipc, expired, maxRetries,
            attempt, calls, failures, lastError, outcome, startReady,
            lastInitCall, reinits>>

(***************************************************************************)
(* PERSISTENCE GATEWAY: a gateway method whose operation calls another     *)
(* gateway method (storageService.js 660-695, 978-1021): state             *)
(***************************************************************************)
VARIABLES
    xpc,            \* position of the caller of the outer method
    xMethod,        \* "none" | "getBatchWithTimestampCorrection" | "deleteUserImages"
    xOuterAttempt,  \* the loop variable of the outer _executeWithRetry
    xInnerAttempt,  \* the loop variable of the inner _executeWithRetry
    xLog,           \* the store calls made so far: <<which call, its result>>
    xOutcome        \* how the outer method ended: "none" | "returned" | "threw"

neVars == <<xpc, xMethod, xOuterAttempt, xInnerAttempt, xLog, xOutcome>>

NestedIdle ==
    /\ xpc = "idle"
    /\ xMethod = "none"
    /\ xOuterAttempt = 0
    /\ xInnerAttempt = 0
    /\ xLog = <<>>
    /\ xOutcome = "none"

(***************************************************************************)
(* INFERENCE INVOKER  (mlService.js): state                                *)
(***************************************************************************)
VARIABLES
    mlInitialized,  \* MLService.initialized
    tempFiles,      \* names of the files present in MLService.tempDir
    mpc,            \* position of every analyzeImage invocation
    minput,         \* kind of the imageData argument
    fname,          \* the temp file name the invocation chose (0: none)
    unlinked,       \* the invocation issued fs.unlink on its temp file
    mres            \* how the invocation ended

mlVars == <<mlInitialized, tempFiles, mpc, minput, fname, unlinked, mres>>

Invocations == 1..MaxInvocations
\* temp_image_${Date.now()}.jpg: two downloads in one millisecond share a name
Names == 1..MaxNames

NoResult == [kind |-> "none", success |-> FALSE, conf |-> 0, score |-> 0, error |-> "none"]

MlIdle ==
    /\ mlInitialized = FALSE
    /\ tempFiles = {}
    /\ mpc = [i \in Invocations |-> "idle"]
    /\ minput = [i \in Invocations |-> "none"]
    /\ fname = [i \in Invocations |-> 0]
    /\ unlinked = [i \in Invocations |-> FALSE]
    /\ mres = [i \in Invocations |-> NoResult]

(***************************************************************************)
(* BATCH ORCHESTRATOR  (routes/analysis.js, POST /analyze-batch): state    *)
(***************************************************************************)
VARIABLES
    bpc,            \* position of the handler
    bSel,           \* selection mode, the batchTimestamp of the request, whether the selection returned
    bImages,        \* imagesForAnalysis: the batch_timestamp of every image (image k has image_id k)
    bAnMode,        \* analysisMode
    bSoilData,      \* soilData is not null
    bActualTs,      \* actualBatchTimestamp
    bResults,       \* imageAnalysis.results
    bSoilRes,       \* soilAnalysis: "none" (null) | "ok" | "fallback"
    bToStore,       \* resultsToStore
    bStoreCalls,    \* invocations of the operation of storeBatchAnalysisResults
    bInsertOut,     \* outcome of the insert of every item handled so far
    bInserted,      \* insertedResults
    bErrors,        \* errors (the index of every failed item)
    db,             \* rows of prediction_results inserted by this run
    bStorage,       \* storedResults
    bResp           \* the response sent

baVars == <<bpc, bSel, bImages, bAnMode, bSoilData, bActualTs, bResults, bSoilRes,
            bToStore, bStoreCalls, bInsertOut, bInserted, bErrors, db, bStorage, bResp>>

NullTs == "null"
\* new Date().toISOString() of this run
NowTs == "now"
Timestamps == {"t1", "t2"}
NoStorage == [kind |-> "null", stored_count |-> 0, failed_count |-> 0, batch_timestamp |-> NullTs]
NoResponse == [status |-> 0, success |-> FALSE, total |-> 0, analyzed |-> 0,
               failed |-> 0, batch_timestamp |-> NullTs, storage |-> NoStorage]

BatchIdle ==
    /\ bpc = "idle"
    /\ bSel = [mode |-> "none", req |-> NullTs, selected |-> FALSE]
    /\ bImages = <<>>
    /\ bAnMode = "both"
    /\ bSoilData = FALSE
    /\ bActualTs = NullTs
    /\ bResults = <<>>
    /\ bSoilRes = "none"
    /\ bToStore = <<>>
    /\ bStoreCalls = 0
    /\ bInsertOut = <<>>
    /\ bInserted = <<>>
    /\ bErrors = <<>>
    /\ db = <<>>
    /\ bStorage = NoStorage
    /\ bResp = NoResponse

(***************************************************************************)
(* BATCH LOOKUP  (routes/analysis.js, GET /batch/:batchId): state          *)
(* Strings are sequences of characters.                                    *)
(***************************************************************************)
VARIABLES
    lpc,            \* "idle", or what was called: "normalized" | "looked_up"
    nIn,            \* the argument of a call of normalizeTimestamp
    nOut,           \* what it returned
    nTwice,         \* what it returns when applied to nOut
    lReq,           \* batchId of a lookup
    lStored,        \* batch_timestamp of a history item
    lStrategy,      \* the strategy that matched the item (0: the item is filtered out)
    lHistory,       \* batch_timestamp of every item of the history of a batch lookup
    lFound,         \* positions in lHistory of the items the lookup returns
    lStatus,        \* HTTP status of the batch lookup (0: none)
    hIn,            \* the history GET /batch-history reads
    hQuery,         \* its query: [mode, limit]
    hGroups,        \* groupedBatches, in insertion order
    hBatches        \* the batches of its response

luVars == <<lpc, nIn, nOut, nTwice, lReq, lStored, lStrategy,
            lHistory, lFound, lStatus, hIn, hQuery, hGroups, hBatches>>

\* null / undefined
NullStr == <<"null">>

LookupIdle ==
    /\ lpc = "idle"
    /\ nIn = NullStr
    /\ nOut = NullStr
    /\ nTwice = NullStr
    /\ lReq = NullStr
    /\ lStored = NullStr
    /\ lStrategy = 0
    /\ lHistory = <<>>
    /\ lFound = <<>>
    /\ lStatus = 0
    /\ hIn = <<>>
    /\ hQuery = [mode |-> "all", limit |-> 10]
    /\ hGroups = <<>>
    /\ hBatches = <<>>

(***************************************************************************)
(* LATE FUSION  (lateFusionService): state                                 *)
(***************************************************************************)
VARIABLES
    fpc,            \* "idle", or what was called: "categorized" | "combined"
    fScore,         \* a combined score, in tenths
    fScore2,        \* a second combined score, in tenths
    fCat,           \* scoreToHealthCategory of the first
    fCat2,          \* scoreToHealthCategory of the second
    fCatInline,     \* the category fuseSinglePair gives the first
    fRecsIn,        \* imageRecs followed by soilRecs of a call of combineRecommendations
    fRecsOut        \* what it returned

fuVars == <<fpc, fScore, fScore2, fCat, fCat2, fCatInline, fRecsIn, fRecsOut>>

FusionIdle ==
    /\ fpc = "idle"
    /\ fScore = 0
    /\ fScore2 = 0
    /\ fCat = "Unknown"
    /\ fCat2 = "Unknown"
    /\ fCatInline = "Unknown"
    /\ fRecsIn = <<>>
    /\ fRecsOut = <<>>

(***************************************************************************)
(* LATE FUSION  (lateFusionService, mlService.integratedAnalysis): a call  *)
(***************************************************************************)
VARIABLES
    zpc,            \* "idle" | "called"
    zPath,          \* "single" (performLateFusion) | "batch" (fuseSinglePair) | "integrated"
    zImg,           \* the image result passed
    zSoil,          \* the soil result passed
    zOut            \* how the call ended

zVars == <<zpc, zPath, zImg, zSoil, zOut>>

\* a score or confidence that is null, and one that is undefined
NullVal == -1
AbsentVal == -2

\* what formatForStorage returns: the placeholder, or the kept entries joined by '; '
NoSerial == [placeholder |-> FALSE, items |-> <<>>]
NoFusionInput == [given |-> FALSE, success |-> FALSE, score |-> AbsentVal, conf |-> AbsentVal,
                  issues |-> <<>>, recs |-> <<>>]
NoFusionOutput == [kind |-> "none", overall |-> "", conf |-> 0, recs |-> NoSerial, issues |-> NoSerial]

FuseIdle ==
    /\ zpc = "idle"
    /\ zPath = "none"
    /\ zImg = NoFusionInput
    /\ zSoil = NoFusionInput
    /\ zOut = NoFusionOutput

Ctor == <<"ctor", 0>>
Admin == <<"admin", 0>>
Ops == {<<"op", i>> : i \in 1..MaxOps}
Procs == {Ctor, Admin} \cup Ops

ErrKinds == {"notReady", "other"}
NoError == [kind |-> "none", at |-> 0]
NoOutcome == [kind |-> "none", value |-> 0, err |-> NoError]
\* the Error('Storage service not ready after waiting') of line 61
GateError == [kind |-> "notReady", at |-> 0]

\* supabaseService.initialized
SupaInitialized == supa = "ok"

\* a guard that never collapses a concurrent call
InitGuardOff == FALSE

\* line 12: if (this.initializing) return;
InitGuard == initializing

\* a gate that lets the operation run whatever waitForReady returned
GateOpen == FALSE

\* line 60: if (!this.ready) throw new Error('Storage service not ready after waiting')
GateClosed == ~ready

\* line 45: the condition of the polling loop of waitForReady
WaitLoopCond(p) ==
    \/ (~ready /\ ~initializing)
    \/ (initializing /\ ~expired[p])

\* a loop that runs one attempt too many
MoreAttemptsOffByOne(a, n) == a <= n

\* lines 66 and 73: after a failed attempt a of n, is there another attempt
MoreAttempts(a, n) == a < n

\* line 75: error.message.includes('not ready') || includes('initialization')
IsReadinessError(e) == e.kind = "notReady"

\* positions that resume in the microtask drain of the current callback
Micro(p) ==
    \/ ipc[p] = "fast"
    \/ ipc[p] = "idle" /\ pc[p] \in {"wfr_check", "wfr_ret", "retry_next", "reinit_ret"}

MacroTurn == \A p \in Procs : ~Micro(p)

\* initialize(), its synchronous part (lines 11-21), called by p, which resumes at cont
InitCall(p, cont) ==
    /\ pc' = [pc EXCEPT ![p] = cont]
    /\ IF InitGuard
       THEN /\ lastInitCall' = [lastInitCall EXCEPT ![p] = "collapsed"]
            /\ UNCHANGED <<initializing, inflight, ipc>>
       ELSE /\ initializing' = TRUE
            /\ inflight' = inflight \cup {p}
            /\ ipc' = [ipc EXCEPT ![p] = IF SupaInitialized THEN "fast" ELSE "poll"]
            /\ lastInitCall' = [lastInitCall EXCEPT ![p] = "started"]

\* operation() is invoked (line 68)
BeginAttempt(p, a) ==
    /\ attempt' = [attempt EXCEPT ![p] = a]
    /\ calls' = [calls EXCEPT ![p] = @ + 1]
    /\ startReady' = [startReady EXCEPT ![p] = ready]

GwInit ==
    /\ ready = FALSE
    /\ initializing = TRUE
    /\ supa \in {"testing", "failed"}
    /\ inflight = {Ctor}
    /\ pc = [p \in Procs |-> "idle"]
    /\ ipc = [p \in Procs |-> IF p = Ctor THEN "poll" ELSE "idle"]
    /\ expired = [p \in Procs |-> FALSE]
    /\ maxRetries = [p \in Procs |-> 0]
    /\ attempt = [p \in Procs |-> 0]
    /\ calls = [p \in Procs |-> 0]
    /\ failures = [p \in Procs |-> 0]
    /\ lastError = [p \in Procs |-> NoError]
    /\ outcome = [p \in Procs |-> NoOutcome]
    /\ startReady = [p \in Procs |-> TRUE]
    /\ lastInitCall = [p \in Procs |-> IF p = Ctor THEN "started" ELSE "none"]
    /\ reinits = 0

\* supabaseService: the connection test settles (part_000 lines 41-52)
SupaResolve ==
    /\ UNCHANGED <<mlVars, baVars, luVars, fuVars, zVars, neVars>>
    /\ MacroTurn
    /\ supa = "testing"
    /\ supa' \in {"ok", "failed"}
    /\ UNCHANGED <<ready, initializing, inflight, pc, ipc, expired, maxRetries,
                   attempt, calls, failures, lastError, outcome, startReady,
                   lastInitCall, reinits>>

\* initialize(), lines 21-36: waitForInitialization returned
InitFinish(p) ==
    /\ UNCHANGED <<mlVars, baVars, luVars, fuVars, zVars, neVars>>
    /\ ipc[p] \in {"fast", "poll"}
    /\ ipc[p] = "poll" => MacroTurn
    /\ ready' = SupaInitialized
    /\ initializing' = FALSE
    /\ inflight' = inflight \ {p}
    /\ ipc' = [ipc EXCEPT ![p] = "idle"]
    /\ UNCHANGED <<supa, pc, expired, maxRetries, attempt, calls, failures,
                   lastError, outcome, startReady, lastInitCall, reinits>>

\* _executeWithRetry is called (lines 57-59, 65-68)
StartOp(p, n) ==
    /\ UNCHANGED <<mlVars, baVars, luVars, fuVars, zVars, neVars>>
    /\ MacroTurn
    /\ p \in Ops
    /\ pc[p] = "idle"
    /\ maxRetries' = [maxRetries EXCEPT ![p] = n]
    /\ expired' = [expired EXCEPT ![p] = FALSE]
    /\ IF ready
       THEN /\ BeginAttempt(p, 1)
            /\ pc' = [pc EXCEPT ![p] = "running"]
       ELSE /\ pc' = [pc EXCEPT ![p] = "wfr_check"]
            /\ UNCHANGED <<attempt, calls, startReady>>
    /\ UNCHANGED <<ready, initializing, supa, inflight, ipc, failures,
                   lastError, outcome, lastInitCall, reinits>>

\* waitForReady, lines 45-52: the loop condition, then the re-initialization
WfrCheck(p) ==
    /\ UNCHANGED <<mlVars, baVars, luVars, fuVars, zVars, neVars>>
    /\ pc[p] = "wfr_check"
    /\ ipc[p] = "idle"
    /\ IF WaitLoopCond(p)
       THEN /\ pc' = [pc EXCEPT ![p] = "wfr_sleep"]
            /\ UNCHANGED <<initializing, inflight, ipc, lastInitCall>>
       ELSE IF ~ready
            THEN InitCall(p, "wfr_ret")
            ELSE /\ pc' = [pc EXCEPT ![p] = "wfr_ret"]
                 /\ UNCHANGED <<initializing, inflight, ipc, lastInitCall>>
    /\ UNCHANGED <<ready, supa, expired, maxRetries, attempt, calls, failures,
                   lastError, outcome, startReady, reinits>>

\* waitForReady, line 46: the 200 ms timer fires
WfrWake(p) ==
    /\ UNCHANGED <<mlVars, baVars, luVars, fuVars, zVars, neVars>>
    /\ MacroTurn
    /\ pc[p] = "wfr_sleep"
    /\ pc' = [pc EXCEPT ![p] = "wfr_check"]
    /\ UNCHANGED <<ready, initializing, supa, inflight, ipc, expired, maxRetries,
                   attempt, calls, failures, lastError, outcome, startReady,
                   lastInitCall, reinits>>

\* waitForReady, line 45: maxWaitTime has elapsed since startTime
Tick(p) ==
    /\ UNCHANGED <<mlVars, baVars, luVars, fuVars, zVars, neVars>>
    /\ MacroTurn
    /\ pc[p] = "wfr_sleep"
    /\ ~expired[p]
    /\ expired' = [expired EXCEPT ![p] = TRUE]
    /\ UNCHANGED <<ready, initializing, supa, inflight, pc, ipc, maxRetries,
                   attempt, calls, failures, lastError, outcome, startReady,
                   lastInitCall, reinits>>

\* waitForReady returns this.ready (line 54); lines 60-68 of _executeWithRetry
GateReturn(p) ==
    /\ UNCHANGED <<mlVars, baVars, luVars, fuVars, zVars, neVars>>
    /\ pc[p] = "wfr_ret"
    /\ ipc[p] = "idle"
    /\ IF GateClosed
       THEN /\ outcome' = [outcome EXCEPT ![p] =
                              [kind |-> "throw", value |-> 0, err |-> GateError]]
            /\ pc' = [pc EXCEPT ![p] = "done"]
            /\ UNCHANGED <<attempt, calls, startReady>>
       ELSE /\ BeginAttempt(p, 1)
            /\ pc' = [pc EXCEPT ![p] = "running"]
            /\ UNCHANGED outcome
    /\ UNCHANGED <<ready, initializing, supa, inflight, ipc, expired, maxRetries,
                   failures, lastError, lastInitCall, reinits>>

\* the operation settles with a value (line 68)
AttemptOk(p) ==
    /\ UNCHANGED <<mlVars, baVars, luVars, fuVars, zVars, neVars>>
    /\ MacroTurn
    /\ pc[p] = "running"
    /\ outcome' = [outcome EXCEPT ![p] =
                      [kind |-> "ok", value |-> attempt[p], err |-> NoError]]
    /\ pc' = [pc EXCEPT ![p] = "done"]
    /\ UNCHANGED <<ready, initializing, supa, inflight, ipc, expired, maxRetries,
                   attempt, calls, failures, lastError, startReady,
                   lastInitCall, reinits>>

\* the operation throws (lines 69-74, 82-83)
AttemptFail(p, k) ==
    /\ UNCHANGED <<mlVars, baVars, luVars, fuVars, zVars, neVars>>
    /\ MacroTurn
    /\ pc[p] = "running"
    /\ failures' = [failures EXCEPT ![p] = @ + 1]
    /\ lastError' = [lastError EXCEPT ![p] = [kind |-> k, at |-> attempt[p]]]
    /\ IF MoreAttempts(attempt[p], maxRetries[p])
       THEN /\ pc' = [pc EXCEPT ![p] = "backoff"]
            /\ UNCHANGED outcome
       ELSE /\ pc' = [pc EXCEPT ![p] = "done"]
            /\ outcome' = [outcome EXCEPT ![p] =
                              [kind |-> "throw", value |-> 0, err |-> lastError'[p]]]
    /\ UNCHANGED <<ready, initializing, supa, inflight, ipc, expired, maxRetries,
                   attempt, calls, startReady, lastInitCall, reinits>>

\* the backoff timer fires (lines 74-77)
BackoffDone(p) ==
    /\ UNCHANGED <<mlVars, baVars, luVars, fuVars, zVars, neVars>>
    /\ MacroTurn
    /\ pc[p] = "backoff"
    /\ IF IsReadinessError(lastError[p])
       THEN InitCall(p, "retry_next")
       ELSE /\ pc' = [pc EXCEPT ![p] = "retry_next"]
            /\ UNCHANGED <<initializing, inflight, ipc, lastInitCall>>
    /\ UNCHANGED <<ready, supa, expired, maxRetries, attempt, calls, failures,
                   lastError, outcome, startReady, reinits>>

\* the next iteration of the retry loop (lines 66-68)
RetryNext(p) ==
    /\ UNCHANGED <<mlVars, baVars, luVars, fuVars, zVars, neVars>>
    /\ pc[p] = "retry_next"
    /\ ipc[p] = "idle"
    /\ BeginAttempt(p, attempt[p] + 1)
    /\ pc' = [pc EXCEPT ![p] = "running"]
    /\ UNCHANGED <<ready, initializing, supa, inflight, ipc, expired, maxRetries,
                   failures, lastError, outcome, lastInitCall, reinits>>

\* reinitialize(), lines 930-933
Reinitialize ==
    /\ UNCHANGED <<mlVars, baVars, luVars, fuVars, zVars, neVars>>
    /\ MacroTurn
    /\ pc[Admin] = "idle"
    /\ reinits < MaxReinits
    /\ reinits' = reinits + 1
    /\ ready' = FALSE
    /\ InitCall(Admin, "reinit_ret")
    /\ UNCHANGED <<supa, expired, maxRetries, attempt, calls, failures,
                   lastError, outcome, startReady>>

\* reinitialize(), line 934
ReinitReturn ==
    /\ UNCHANGED <<mlVars, baVars, luVars, fuVars, zVars, neVars>>
    /\ pc[Admin] = "reinit_ret"
    /\ ipc[Admin] = "idle"
    /\ pc' = [pc EXCEPT ![Admin] = "idle"]
    /\ UNCHANGED <<ready, initializing, supa, inflight, ipc, expired, maxRetries,
                   attempt, calls, failures, lastError, outcome, startReady,
                   lastInitCall, reinits>>

GwNext ==
    \/ SupaResolve
    \/ \E p \in Procs : InitFinish(p)
    \/ \E p \in Ops, n \in 1..MaxRetriesBound : StartOp(p, n)
    \/ \E p \in Ops : WfrCheck(p)
    \/ \E p \in Ops : WfrWake(p)
    \/ \E p \in Ops : Tick(p)
    \/ \E p \in Ops : GateReturn(p)
    \/ \E p \in Ops : AttemptOk(p)
    \/ \E p \in Ops, k \in ErrKinds : AttemptFail(p, k)
    \/ \E p \in Ops : BackoffDone(p)
    \/ \E p \in Ops : RetryNext(p)
    \/ Reinitialize
    \/ ReinitReturn

vars == <<gwVars, mlVars, baVars, luVars, fuVars, zVars, neVars>>

\* the state after the modules are loaded: the gateway is constructed, the
\* invoker is not initialized yet, no request is being handled
Init == GwInit /\ MlIdle /\ BatchIdle /\ LookupIdle /\ FusionIdle /\ FuseIdle /\ NestedIdle

SpecGateway == Init /\ [][GwNext]_vars

\* the scheduling of the event loop: a timer that is due, a callback that is
\* pending and a continuation that is queued are run, however often a
\* microtask drain comes in between (strong fairness); the connection test
\* and every operation settle; requests (StartOp, Reinitialize) need not arrive
GwFairness ==
    /\ SF_vars(SupaResolve)
    /\ \A p \in Procs : SF_vars(InitFinish(p))
    /\ \A p \in Ops : /\ SF_vars(WfrCheck(p))
                      /\ SF_vars(WfrWake(p))
                      /\ SF_vars(Tick(p))
                      /\ SF_vars(GateReturn(p))
                      /\ SF_vars(AttemptOk(p) \/ \E k \in ErrKinds : AttemptFail(p, k))
                      /\ SF_vars(BackoffDone(p))
                      /\ SF_vars(RetryNext(p))
    /\ SF_vars(ReinitReturn)

SpecGatewayFair == Init /\ [][GwNext]_vars /\ GwFairness

PassedGate(p) == calls[p] > 0
InWaitForReady(p) == pc[p] \in {"wfr_check", "wfr_sleep", "wfr_ret"}

(***************************************************************************)
(* C1: a call of _executeWithRetry that got past the readiness gate with   *)
(* maxRetries = n invokes the operation at most n times; if it fails, all  *)
(* n attempts were made and failed and the error thrown is the one of the  *)
(* n-th attempt; if it returns, it returns the value of the attempt k <= n *)
(* that succeeded and k is the number of invocations made.                 *)
(***************************************************************************)
C1_RetryBound ==
    \A p \in Ops :
        /\ calls[p] <= maxRetries[p]
        /\ calls[p] = attempt[p]
        /\ (pc[p] = "done" /\ outcome[p].kind = "throw" /\ PassedGate(p)) =>
              /\ calls[p] = maxRetries[p]
              /\ failures[p] = maxRetries[p]
              /\ outcome[p].err.at = maxRetries[p]
        /\ (pc[p] = "done" /\ outcome[p].kind = "ok") =>
              /\ outcome[p].value = calls[p]
              /\ failures[p] = calls[p] - 1
              /\ calls[p] <= maxRetries[p]

C1_Witness ==
    \E p \in Ops : /\ pc[p] = "done" /\ outcome[p].kind = "throw"
                   /\ maxRetries[p] >= 2 /\ failures[p] = maxRetries[p]

(***************************************************************************)
(* C2: every call of waitForReady eventually returns.                      *)
(***************************************************************************)
C2_WaitForReadyReturns ==
    \A p \in Ops : InWaitForReady(p) ~> ~InWaitForReady(p)

(***************************************************************************)
(* C3: every attempt of an operation starts while ready = TRUE.            *)
(***************************************************************************)
C3_AttemptsOnlyWhenReady ==
    \A p \in Ops : PassedGate(p) => startReady[p]

C3_Witness ==
    \E p \in Ops : /\ pc[p] = "running" /\ attempt[p] >= 2
                   /\ lastInitCall[p] = "started"
                   /\ reinits >= 1

(***************************************************************************)
(* C4: at most one initialization attempt is in flight; a call of          *)
(* initialize() that finds one in flight starts none, and waitForReady     *)
(* never has an attempt of its own in flight.                              *)
(***************************************************************************)
C4_SingleInit ==
    /\ Cardinality(inflight) <= 1
    /\ inflight # {} => initializing
    /\ \A p \in Procs : lastInitCall[p] = "collapsed" => p \notin inflight
    /\ \A p \in Ops : InWaitForReady(p) => p \notin inflight

C4_Witness ==
    \E p, q \in Procs : /\ p # q /\ q \in inflight
                        /\ lastInitCall[p] = "collapsed"
                        /\ pc[p] \in {"wfr_ret", "reinit_ret"}

(***************************************************************************)
(* INFERENCE INVOKER  (mlService.js): analyzeImage                         *)
(***************************************************************************)
\* what imageData can be (getImageLocalPath, lines 218-235)
InputKinds == {"local", "url", "path", "path_nourl", "unresolvable"}

\* stdout of a worker that exits with code 0 (lines 322-344)
ExitZeroOutputs == {"json_success", "json_failure", "json_null", "embedded", "garbage"}

\* confidence (in hundredths) and plant health score a worker may report
WorkerConfs == {0, 80}
WorkerScores == {0, 90}

\* getImageFallbackAnalysis (lines 719-740)
Fallback(reason) ==
    [kind |-> "returned", success |-> FALSE, conf |-> 0, score |-> 0, error |-> reason]

\* the catch of analyzeImage (lines 135-138)
OnError(reason) == Fallback(reason)

\* what executeTomatoClassifier resolves with on exit code 0 (lines 322-344)
ParseOutput(out, c, h) ==
    CASE out \in {"json_success", "embedded"} ->
            [null |-> FALSE, success |-> TRUE, conf |-> c, score |-> h, error |-> "none"]
      [] out = "json_failure" ->
            [null |-> FALSE, success |-> FALSE, conf |-> c, score |-> h, error |-> "worker"]
      [] out = "json_null" ->
            [null |-> TRUE, success |-> FALSE, conf |-> 0, score |-> 0, error |-> "none"]
      [] OTHER ->
            [null |-> FALSE, success |-> FALSE, conf |-> 0, score |-> 0, error |-> "parse"]

\* what executeTomatoClassifier resolves with otherwise (lines 345-369)
ClassifierFailure(reason) ==
    [null |-> FALSE, success |-> FALSE, conf |-> 0, score |-> 0, error |-> reason]

\* analyzeImage after the classifier resolved (lines 103-138)
AnalyzeResult(cls) ==
    IF cls.null THEN OnError("type")
    ELSE IF ~cls.success THEN OnError(cls.error)
    ELSE [kind |-> "returned", success |-> TRUE, conf |-> cls.conf,
          score |-> cls.score, error |-> "none"]

\* analyzeImage, lines 99-101 and cleanupTempFile (lines 705-717)
Cleanup(i) ==
    IF fname[i] # 0
    THEN /\ tempFiles' = tempFiles \ {fname[i]}
         /\ unlinked' = [unlinked EXCEPT ![i] = TRUE]
    ELSE UNCHANGED <<tempFiles, unlinked>>

\* MLService.initialize (lines 25-48): every branch sets initialized
MlInitialize ==
    /\ UNCHANGED <<gwVars, baVars, luVars, fuVars, zVars, neVars>>
    /\ ~mlInitialized
    /\ mlInitialized' = TRUE
    /\ UNCHANGED <<tempFiles, mpc, minput, fname, unlinked, mres>>

\* analyzeImage is called (lines 81-93) and getImageLocalPath runs (lines 218-235)
AnalyzeImage(i, kind, n) ==
    /\ UNCHANGED <<gwVars, baVars, luVars, fuVars, zVars, neVars>>
    /\ mpc[i] = "idle"
    /\ minput' = [minput EXCEPT ![i] = kind]
    /\ IF ~mlInitialized
       THEN /\ mres' = [mres EXCEPT ![i] = OnError("not_initialized")]
            /\ mpc' = [mpc EXCEPT ![i] = "returned"]
            /\ UNCHANGED <<tempFiles, fname>>
       ELSE CASE kind = "local" ->
                    /\ mpc' = [mpc EXCEPT ![i] = "classifying"]
                    /\ UNCHANGED <<tempFiles, fname, mres>>
              [] kind \in {"url", "path"} ->
                    \* downloadImageFromUrl, lines 257-264
                    /\ fname' = [fname EXCEPT ![i] = n]
                    /\ tempFiles' = tempFiles \cup {n}
                    /\ mpc' = [mpc EXCEPT ![i] = "downloading"]
                    /\ UNCHANGED mres
              [] OTHER ->
                    /\ mres' = [mres EXCEPT ![i] = OnError("cannot_resolve")]
                    /\ mpc' = [mpc EXCEPT ![i] = "returned"]
                    /\ UNCHANGED <<tempFiles, fname>>
    /\ UNCHANGED <<mlInitialized, unlinked>>

\* the download ends with status 200 and the file is written (lines 270-276),
\* then analyzeImage tests fs.existsSync (lines 91-93)
DownloadFinish(i) ==
    /\ UNCHANGED <<gwVars, baVars, luVars, fuVars, zVars, neVars>>
    /\ mpc[i] = "downloading"
    /\ IF fname[i] \in tempFiles
       THEN /\ mpc' = [mpc EXCEPT ![i] = "classifying"]
            /\ UNCHANGED mres
       ELSE /\ mpc' = [mpc EXCEPT ![i] = "returned"]
            /\ mres' = [mres EXCEPT ![i] = OnError("file_not_found")]
    /\ UNCHANGED <<mlInitialized, tempFiles, minput, fname, unlinked>>

\* the response has a status other than 200 (lines 265-268)
DownloadHttpError(i) ==
    /\ UNCHANGED <<gwVars, baVars, luVars, fuVars, zVars, neVars>>
    /\ mpc[i] = "downloading"
    /\ mpc' = [mpc EXCEPT ![i] = "returned"]
    /\ mres' = [mres EXCEPT ![i] = OnError("http_status")]
    /\ UNCHANGED <<mlInitialized, tempFiles, minput, fname, unlinked>>

\* the request emits 'error' (lines 277-280)
DownloadNetError(i) ==
    /\ UNCHANGED <<gwVars, baVars, luVars, fuVars, zVars, neVars>>
    /\ mpc[i] = "downloading"
    /\ Cleanup(i)
    /\ mpc' = [mpc EXCEPT ![i] = "returned"]
    /\ mres' = [mres EXCEPT ![i] = OnError("network")]
    /\ UNCHANGED <<mlInitialized, minput, fname>>

\* the server stops answering, or the connection drops after the status
\* line: the request has no timeout and the response no 'error', 'aborted'
\* or 'close' handler (lines 264-280), so no callback of the promise fires
DownloadStall(i) ==
    /\ UNCHANGED <<gwVars, baVars, luVars, fuVars, zVars, neVars>>
    /\ mpc[i] = "downloading"
    /\ mpc' = [mpc EXCEPT ![i] = "download_stalled"]
    /\ UNCHANGED <<mlInitialized, tempFiles, minput, fname, unlinked, mres>>

\* the classifier resolved with cls: lines 97-138 of analyzeImage
Classified(i, cls) ==
    /\ mpc[i] = "classifying"
    /\ Cleanup(i)
    /\ mres' = [mres EXCEPT ![i] = AnalyzeResult(cls)]
    /\ mpc' = [mpc EXCEPT ![i] = "returned"]
    /\ UNCHANGED <<mlInitialized, minput, fname>>

\* the worker exits with code 0 (lines 319-344)
WorkerExitZero(i, out, c, h) ==
    /\ UNCHANGED <<gwVars, baVars, luVars, fuVars, zVars, neVars>>
    /\ Classified(i, ParseOutput(out, c, h))

\* the worker exits with another code (lines 345-351)
WorkerExitNonZero(i) ==
    /\ UNCHANGED <<gwVars, baVars, luVars, fuVars, zVars, neVars>>
    /\ Classified(i, ClassifierFailure("exit_code"))

\* the worker cannot be started (lines 354-360)
WorkerSpawnError(i) ==
    /\ UNCHANGED <<gwVars, baVars, luVars, fuVars, zVars, neVars>>
    /\ Classified(i, ClassifierFailure("spawn"))

\* the 60 s timer fires before the worker closed (lines 362-370)
WorkerTimeout(i) ==
    /\ UNCHANGED <<gwVars, baVars, luVars, fuVars, zVars, neVars>>
    /\ Classified(i, ClassifierFailure("timeout"))

\* the steps of invocation i that its callbacks and timers can take
InvocationStep(i) ==
    \/ DownloadFinish(i)
    \/ DownloadHttpError(i)
    \/ DownloadNetError(i)
    \/ \E out \in ExitZeroOutputs, c \in WorkerConfs, h \in WorkerScores :
           WorkerExitZero(i, out, c, h)
    \/ WorkerExitNonZero(i)
    \/ WorkerSpawnError(i)
    \/ WorkerTimeout(i)

MlNext ==
    \/ MlInitialize
    \/ \E i \in Invocations, kind \in InputKinds, n \in Names : AnalyzeImage(i, kind, n)
    \/ \E i \in Invocations : DownloadFinish(i)
    \/ \E i \in Invocations : DownloadHttpError(i)
    \/ \E i \in Invocations : DownloadNetError(i)
    \/ \E i \in Invocations : DownloadStall(i)
    \/ \E i \in Invocations, out \in ExitZeroOutputs, c \in WorkerConfs, h \in WorkerScores :
           WorkerExitZero(i, out, c, h)
    \/ \E i \in Invocations : WorkerExitNonZero(i)
    \/ \E i \in Invocations : WorkerSpawnError(i)
    \/ \E i \in Invocations : WorkerTimeout(i)

SpecInvoker == Init /\ [][MlNext]_vars

Returned(i) == mpc[i] = "returned"
Pending(i) == mpc[i] \notin {"idle", "returned"}

(***************************************************************************)
(* C5: analyzeImage never raises and always completes: an invocation that  *)
(* has not returned yet has a callback or timer that will resume it, it    *)
(* ends by returning, and what it returns on a failure path is the         *)
(* fallback (success FALSE, confidence 0, score 0, with the reason).       *)
(***************************************************************************)
C5_NeverRaisesAlwaysCompletes ==
    \A i \in Invocations :
        /\ mres[i].kind \in {"none", "returned"}
        /\ Returned(i) => mres[i].kind = "returned"
        /\ (Returned(i) /\ ~mres[i].success) =>
               /\ mres[i].conf = 0 /\ mres[i].score = 0
               /\ mres[i].error # "none"
        /\ Pending(i) => ENABLED InvocationStep(i)

(***************************************************************************)
(* C6: when analyzeImage has returned, the temp file it created is gone or *)
(* its deletion has been issued.                                           *)
(***************************************************************************)
C6_ScratchFilesDeleted ==
    \A i \in Invocations :
        (Returned(i) /\ fname[i] # 0) => (unlinked[i] \/ fname[i] \notin tempFiles)

(***************************************************************************)
(* BATCH ORCHESTRATOR  (routes/analysis.js, POST /analyze-batch)           *)
(***************************************************************************)
SelModes == {"batch_id", "image_ids", "recent"}
AnalysisModes == {"both", "image_only", "soil_only"}

\* what a successful analyzeImage may carry: health_status ("" when absent)
\* and plant_health_score (-1 when absent)
WorkerProfiles ==
    { [health |-> "Healthy", score |-> 90],
      [health |-> "Diseased", score |-> 30],
      [health |-> "", score |-> -1] }

\* outcome of the inserts of one item in storeBatchAnalysisResults (lines 417-476)
InsertOutcomes == {"ok", "err_fb_ok", "err_fb_err", "err_fb_throw", "throw"}

\* the lists a selection can yield: getImagesByBatch (storageService.js 163-183)
\* returns images of the requested batch, getImagesForAnalysis (281-323) the
\* most recent images whatever batch they were uploaded in
ImageLists(mode, req) ==
    UNION { [1..n -> IF mode = "batch_id" THEN {req} ELSE Timestamps \cup {NullTs}] :
            n \in 0..MaxImages }

\* lines 190-214: actualBatchTimestamp
ResolveBatchTs(mode, req, imgs) ==
    IF mode = "recent"
    THEN IF Len(imgs) > 0 /\ imgs[1] # NullTs THEN imgs[1] ELSE NowTs
    ELSE req

\* x || 'Unknown'
OrUnknown(x) == IF x = "" THEN "Unknown" ELSE x

\* mlService.analyzeBatchImages, lines 157-183: the entry pushed for image k
BatchEntry(k, ok, prof) ==
    IF ok
    THEN [success |-> TRUE, image_id |-> k, batch_index |-> k - 1,
          health |-> OrUnknown(prof.health), overall |-> OrUnknown(prof.health),
          score |-> prof.score]
    ELSE [success |-> FALSE, image_id |-> k, batch_index |-> k - 1,
          health |-> "Unknown", overall |-> "Unknown", score |-> -1]

SuccessfulPredictions == Len(SelectSeq(bResults, LAMBDA r : r.success))
FailedPredictions == Len(SelectSeq(bResults, LAMBDA r : ~r.success))
\* line 289
SuccessfulResults == SelectSeq(bResults, LAMBDA r : r.success)

\* lines 313-314 and 396-397
BaseMode ==
    IF bAnMode = "both" /\ bSoilData THEN "batch_integrated"
    ELSE IF bAnMode = "soil_only" THEN "batch_soil_only" ELSE "batch_image_only"

\* lateFusionService (part_001) lines 122-128, on ten times the combined score
Category10(c) ==
    IF c >= 800 THEN "Healthy"
    ELSE IF c >= 600 THEN "Moderate"
    ELSE IF c >= 400 THEN "Unhealthy"
    ELSE IF c >= 200 THEN "Critical"
    ELSE "Unknown"

\* soil_quality_score of soilAnalysis: the worker's on success, 0 in the
\* fallback (mlService.js 742-760)
SoilScore == IF bSoilRes = "ok" THEN 70 ELSE 0

\* fuseSinglePair (part_001 lines 89-182): overall_health of what it returns;
\* a null plant_health_score parses to NaN, which no threshold accepts;
\* broken marks list entries that make the helpers throw (catch, lines 161-181)
FusedHealth(r, broken) ==
    IF broken \/ r.score = -1 THEN "Unknown"
    ELSE Category10(7 * r.score + 3 * SoilScore)

\* lines 298-366: the analysisResult prepared for successfulResults[i]
\* (i counts from 1 here, the loop variable of line 294 is i - 1)
Prepared(i, broken) ==
    LET r == SuccessfulResults[i]
        fuse == bAnMode = "both" /\ bSoilRes # "none"
    IN  [image_id |-> r.image_id,
         batch_timestamp |-> bActualTs,
         batch_index |-> i - 1,
         health_status |-> r.health,
         overall_health |-> IF fuse THEN FusedHealth(r, broken) ELSE r.overall,
         fused |-> fuse,
         fusion_failed |-> fuse /\ broken,
         mode |-> IF fuse THEN "batch_integrated" ELSE BaseMode]

\* storageService.js lines 387-406 and 435-444: the row inserted for results[i]
\* (i counts from 1), full or fallback
StoredRow(v, i, full) ==
    [image_id |-> v.image_id,
     batch_timestamp |-> bToStore[1].batch_timestamp,
     batch_index |-> IF v.batch_index # 0 THEN v.batch_index ELSE i - 1,
     health_status |-> IF full THEN v.health_status ELSE "Error",
     overall_health |-> IF full THEN v.overall_health ELSE "Unknown",
     mode |-> IF full THEN v.mode ELSE "none"]

\* what insert(...).select().single() yields in data on an error
NoRow == [image_id |-> 0, batch_timestamp |-> NullTs, batch_index |-> 0,
          health_status |-> "", overall_health |-> "", mode |-> "none"]

\* lines 393-431 and 433-440: the response
Response(status, ok) ==
    [status |-> status, success |-> ok,
     total |-> Len(bImages),
     analyzed |-> SuccessfulPredictions,
     failed |-> FailedPredictions,
     batch_timestamp |-> bActualTs,
     storage |-> bStorage]

SelectionEmptyOff(imgs) == FALSE
\* line 216: !imagesForAnalysis || imagesForAnalysis.length === 0
SelectionEmpty(imgs) == Len(imgs) = 0

\* the handler runs from the request to the end of the selection (lines 169-259)
Select(mode, req, imgs, am, useSoil, hasSoil, gwOk) ==
    /\ bpc = "idle"
    /\ UNCHANGED <<gwVars, mlVars, luVars, fuVars, zVars, neVars>>
    /\ (mode = "batch_id") = (req # NullTs)
    /\ imgs \in ImageLists(mode, req)
    /\ bSel' = [mode |-> mode, req |-> req, selected |-> gwOk]
    /\ bAnMode' = am
    /\ IF ~gwOk
       THEN \* a gateway call throws: the catch of lines 433-440
            /\ bpc' = "responded"
            /\ bResp' = [NoResponse EXCEPT !.status = 500]
            /\ UNCHANGED <<bImages, bActualTs, bSoilData>>
       ELSE /\ bImages' = imgs
            /\ bActualTs' = ResolveBatchTs(mode, req, imgs)
            /\ IF SelectionEmpty(imgs)
               THEN \* lines 216-221
                    /\ bpc' = "responded"
                    /\ bResp' = [NoResponse EXCEPT !.status = 404]
                    /\ UNCHANGED bSoilData
               ELSE /\ bSoilData' = (useSoil /\ am # "image_only" /\ hasSoil)
                    /\ bpc' = IF am # "soil_only" /\ Len(imgs) > 0 THEN "inferring" ELSE "soil"
                    /\ UNCHANGED bResp
    /\ UNCHANGED <<bResults, bSoilRes, bToStore, bStoreCalls, bInsertOut,
                   bInserted, bErrors, db, bStorage>>

\* one iteration of the loop of analyzeBatchImages (mlService.js 149-194)
InferImage(ok, prof) ==
    /\ bpc = "inferring"
    /\ UNCHANGED <<gwVars, mlVars, luVars, fuVars, zVars, neVars>>
    /\ bResults' = Append(bResults, BatchEntry(Len(bResults) + 1, ok, prof))
    /\ bpc' = IF Len(bResults') = Len(bImages) THEN "soil" ELSE "inferring"
    /\ UNCHANGED <<bSel, bImages, bAnMode, bSoilData, bActualTs, bSoilRes, bToStore,
                   bStoreCalls, bInsertOut, bInserted, bErrors, db, bStorage, bResp>>

\* lines 274-286: the soil analysis, if any
SoilStep(soilOk) ==
    /\ bpc = "soil"
    /\ UNCHANGED <<gwVars, mlVars, luVars, fuVars, zVars, neVars>>
    /\ bSoilRes' = IF bSoilData /\ bAnMode # "image_only"
                   THEN (IF soilOk THEN "ok" ELSE "fallback")
                   ELSE "none"
    /\ bpc' = IF bAnMode # "soil_only" /\ SuccessfulPredictions > 0
              THEN "fusing" ELSE "responding"
    /\ UNCHANGED <<bSel, bImages, bAnMode, bSoilData, bActualTs, bResults, bToStore,
                   bStoreCalls, bInsertOut, bInserted, bErrors, db, bStorage, bResp>>

\* one iteration of the loop of lines 294-376
FuseStep(broken) ==
    /\ bpc = "fusing"
    /\ UNCHANGED <<gwVars, mlVars, luVars, fuVars, zVars, neVars>>
    /\ bToStore' = Append(bToStore, Prepared(Len(bToStore) + 1, broken))
    /\ bpc' = IF Len(bToStore') = Len(SuccessfulResults) THEN "storing" ELSE "fusing"
    /\ UNCHANGED <<bSel, bImages, bAnMode, bSoilData, bActualTs, bResults, bSoilRes,
                   bStoreCalls, bInsertOut, bInserted, bErrors, db, bStorage, bResp>>

\* storeBatchAnalysisResults is called (line 382): the gate and the retry loop
\* of _executeWithRetry, and lines 343-360 of the operation
StoreStart(gwOk) ==
    /\ bpc = "storing"
    /\ UNCHANGED <<gwVars, mlVars, luVars, fuVars, zVars, neVars>>
    /\ IF ~gwOk
       THEN \* not ready after waiting: line 61, caught at line 388
            /\ bpc' = "responding"
            /\ UNCHANGED bStoreCalls
       ELSE IF bToStore[1].batch_timestamp = NullTs
            THEN \* line 354 throws in every attempt; the last error is caught at line 388
                 /\ bStoreCalls' = 2
                 /\ bpc' = "responding"
            ELSE /\ bStoreCalls' = 1
                 /\ bpc' = "inserting"
    /\ UNCHANGED <<bSel, bImages, bAnMode, bSoilData, bActualTs, bResults, bSoilRes,
                   bToStore, bInsertOut, bInserted, bErrors, db, bStorage, bResp>>

\* one iteration of the loop of storeBatchAnalysisResults (lines 363-477),
\* and after the last one the summary (lines 479-492)
InsertItem(out) ==
    /\ bpc = "inserting"
    /\ UNCHANGED <<gwVars, mlVars, luVars, fuVars, zVars, neVars>>
    /\ LET i == Len(bInsertOut) + 1
           v == bToStore[i]
       IN  /\ bInsertOut' = Append(bInsertOut, out)
           /\ db' = CASE out = "ok" -> Append(db, StoredRow(v, i, TRUE))
                      [] out = "err_fb_ok" -> Append(db, StoredRow(v, i, FALSE))
                      [] OTHER -> db
           /\ bInserted' = CASE out = "ok" -> Append(bInserted, StoredRow(v, i, TRUE))
                             [] out = "err_fb_ok" -> Append(bInserted, StoredRow(v, i, FALSE))
                             [] out = "err_fb_err" -> Append(bInserted, NoRow)
                             [] OTHER -> bInserted
           /\ bErrors' = IF out \in {"err_fb_throw", "throw"}
                         THEN Append(bErrors, i - 1) ELSE bErrors
           /\ IF i = Len(bToStore)
              THEN /\ bStorage' = [kind |-> "summary",
                                   stored_count |-> Len(bInserted'),
                                   failed_count |-> Len(bErrors'),
                                   batch_timestamp |-> bToStore[1].batch_timestamp]
                   /\ bpc' = "responding"
              ELSE /\ bpc' = "inserting"
                   /\ UNCHANGED bStorage
    /\ UNCHANGED <<bSel, bImages, bAnMode, bSoilData, bActualTs, bResults, bSoilRes,
                   bToStore, bStoreCalls, bResp>>

\* lines 393-431
Respond ==
    /\ bpc = "responding"
    /\ UNCHANGED <<gwVars, mlVars, luVars, fuVars, zVars, neVars>>
    /\ bResp' = Response(200, TRUE)
    /\ bpc' = "responded"
    /\ UNCHANGED <<bSel, bImages, bAnMode, bSoilData, bActualTs, bResults, bSoilRes,
                   bToStore, bStoreCalls, bInsertOut, bInserted, bErrors, db, bStorage>>

BaNext ==
    \/ /\ bpc = "idle"
       /\ \E mode \in SelModes, req \in Timestamps \cup {NullTs} :
             \E imgs \in ImageLists(mode, req), am \in AnalysisModes,
                useSoil \in BOOLEAN, hasSoil \in BOOLEAN, gwOk \in BOOLEAN :
                 Select(mode, req, imgs, am, useSoil, hasSoil, gwOk)
    \/ \E ok \in BOOLEAN, prof \in WorkerProfiles : InferImage(ok, prof)
    \/ \E soilOk \in BOOLEAN : SoilStep(soilOk)
    \/ \E broken \in BOOLEAN : FuseStep(broken)
    \/ \E gwOk \in BOOLEAN : StoreStart(gwOk)
    \/ \E out \in InsertOutcomes : InsertItem(out)
    \/ Respond

SpecBatch == Init /\ [][BaNext]_vars

AllInferred == Len(bImages) > 0 /\ Len(bResults) = Len(bImages)
\* the store call passed the gate and every insert succeeded
StorageWorked ==
    /\ bStoreCalls > 0
    /\ \A j \in 1..Len(bInsertOut) : bInsertOut[j] = "ok"
HasRowFor(k) == \E j \in 1..Len(db) : db[j].image_id = k

(***************************************************************************)
(* C7: in a batch run where the inference of every selected image fails,   *)
(* the run ends with a batch-level error; it never returns a success       *)
(* report.                                                                 *)
(***************************************************************************)
C7_AllFailuresAbort ==
    (bpc = "responded" /\ AllInferred /\ SuccessfulPredictions = 0)
        => (bResp.success = FALSE /\ bResp.status # 200)

(***************************************************************************)
(* C8: in a batch run over N selected images where exactly one image fails *)
(* inference and storage works, the run returns success with               *)
(* analyzed = N-1 and failed = 1, a verdict is stored for each of the      *)
(* other N-1 images, and the images after the failed one are inferred.     *)
(***************************************************************************)
C8_OneFailureIsolated ==
    (bpc = "responded" /\ AllInferred /\ FailedPredictions = 1 /\ StorageWorked)
        => /\ bResp.success
           /\ bResp.analyzed = Len(bImages) - 1
           /\ bResp.failed = 1
           /\ \A k \in 1..Len(bImages) : bResults[k].success => HasRowFor(k)

(***************************************************************************)
(* C9: for every verdict stored by a batch run, its batch_index equals the *)
(* position (counted from 0) of its observation in the selected input      *)
(* list, also when the inference of an earlier image failed.               *)
(***************************************************************************)
C9_BatchIndexIsInputPosition ==
    \A j \in 1..Len(db) : db[j].batch_index = db[j].image_id - 1

(***************************************************************************)
(* C10: in every batch run that passes selection, in each of the three     *)
(* selection modes, the resolved batch identifier is non-null when storing *)
(* starts: the explicit id when given, else the identifier carried by the  *)
(* selected observations, else a freshly minted timestamp.                 *)
(***************************************************************************)
C10_BatchIdResolved ==
    bpc = "storing" =>
        /\ bActualTs # NullTs
        /\ bSel.req # NullTs => bActualTs = bSel.req
        /\ (bSel.req = NullTs /\ bImages[1] # NullTs) => bActualTs = bImages[1]
        /\ (bSel.req = NullTs /\ bImages[1] = NullTs) => bActualTs = NowTs

\* the store call was made and threw: not ready at the gate (storageService.js 59-62)
\* or the operation threw in every attempt (lines 66-83)
StoreThrew ==
    /\ bpc \in {"responding", "responded"}
    /\ Len(bToStore) > 0
    /\ bStorage = NoStorage

\* the categories of section 4.3
HealthCategories == {"Healthy", "Moderate", "Unhealthy", "Critical", "Unknown"}

(***************************************************************************)
(* C11: in a batch run with soil-aware analysis requested and soil data    *)
(* present, if the soil inference returns the unsuccessful fallback, the   *)
(* run does not abort, the fusion engine is invoked for no image, and      *)
(* every verdict is a pass-through of its image result with mode image     *)
(* only.                                                                   *)
(***************************************************************************)
C11_SoilFailureDowngrades ==
    (bAnMode = "both" /\ bSoilData /\ bSoilRes = "fallback")
        => /\ bpc = "responded" => bResp.status = 200
           /\ \A j \in 1..Len(bToStore) :
                  /\ ~bToStore[j].fused
                  /\ bToStore[j].mode = "batch_image_only"
                  /\ bToStore[j].overall_health = SuccessfulResults[j].overall

(***************************************************************************)
(* C12: when the fusion of image k with the soil result fails, image k is  *)
(* reported as a failed item and not as a successful fused verdict, and    *)
(* the fusion and the storage of every other image proceed.                *)
(***************************************************************************)
C12_FusionFailureIsItemFailure ==
    bpc = "responded" =>
        /\ \A j \in 1..Len(bToStore) :
               bToStore[j].fusion_failed =>
                   /\ bToStore[j].mode # "batch_integrated"
                   /\ bResp.failed >= 1
                   /\ bResp.analyzed < Len(bToStore)
        /\ (\E j \in 1..Len(bToStore) : bToStore[j].fusion_failed)
               => Len(bToStore) = Len(SuccessfulResults)

(***************************************************************************)
(* C13: in storeBatchAnalysisResults over N results, an insert failure for *)
(* item i never prevents the insert of another item from being attempted,  *)
(* item i is listed in errors with its index, and in the summary           *)
(* stored_count + failed_count = N.                                        *)
(***************************************************************************)
C13_PerItemIsolation ==
    bStorage.kind = "summary" =>
        /\ Len(bInsertOut) = Len(bToStore)
        /\ \A i \in 1..Len(bInsertOut) :
               bInsertOut[i] \in {"err_fb_err", "err_fb_throw", "throw"}
                   => \E e \in 1..Len(bErrors) : bErrors[e] = i - 1
        /\ bStorage.stored_count + bStorage.failed_count = Len(bToStore)

(***************************************************************************)
(* C14: if the persistence gateway fails as a whole while the batch run    *)
(* stores its verdicts (not ready, or the store operation throws after its *)
(* retries), the run ends with a single structured failure and never       *)
(* reports success.                                                        *)
(***************************************************************************)
C14_GatewayFailureIsHardFailure ==
    (bpc = "responded" /\ StoreThrew)
        => (bResp.success = FALSE /\ bResp.status \notin {200, 404})

(***************************************************************************)
(* C15: in each of the three selection modes, if selection yields zero     *)
(* observations the run ends with the 'no images found' signal (404, not   *)
(* the generic 500), no inference is invoked and no verdict is stored.     *)
(***************************************************************************)
C15_EmptySelectionSignal ==
    (bSel.selected /\ Len(bImages) = 0)
        => /\ bpc = "responded"
           /\ bResp.status = 404
           /\ bResp.success = FALSE
           /\ bResults = <<>>
           /\ bToStore = <<>>
           /\ db = <<>>

C15_Witness ==
    /\ \E m \in SelModes : bSel.mode = m /\ bSel.selected
    /\ Len(bImages) = 0
    /\ bResp.status = 404

(***************************************************************************)
(* C16: every verdict persisted by a batch run, fused or image-only        *)
(* pass-through, has overall_health in {Healthy, Moderate, Unhealthy,      *)
(* Critical, Unknown}, whatever label the inference worker returned.       *)
(***************************************************************************)
C16_OverallHealthClosedSet ==
    \A j \in 1..Len(db) : db[j].overall_health \in HealthCategories

(***************************************************************************)
(* BATCH LOOKUP  (routes/analysis.js, GET /batch/:batchId)                 *)
(***************************************************************************)
Digits == {"0", "1", "2", "3", "4", "5", "6", "7", "8", "9"}
Plus0000 == <<"+", "0", "0", ":", "0", "0">>

\* String.prototype.replace(c, r) with a string pattern: the first occurrence only
ReplaceFirst(str, c, r) ==
    IF \E i \in 1..Len(str) : str[i] = c
    THEN LET i == CHOOSE k \in 1..Len(str) :
                      str[k] = c /\ \A j \in 1..(k - 1) : str[j] # c
         IN  SubSeq(str, 1, i - 1) \o r \o SubSeq(str, i + 1, Len(str))
    ELSE str

\* str.replace(/\.\d+/g, ''): every dot followed by digits goes with its digits
RECURSIVE SkipDigits(_, _)
SkipDigits(str, i) ==
    IF i <= Len(str) /\ str[i] \in Digits THEN SkipDigits(str, i + 1) ELSE i

RECURSIVE StripFractionFrom(_, _)
StripFractionFrom(str, i) ==
    IF i > Len(str) THEN <<>>
    ELSE IF str[i] = "." /\ i < Len(str) /\ str[i + 1] \in Digits
         THEN StripFractionFrom(str, SkipDigits(str, i + 1))
         ELSE <<str[i]>> \o StripFractionFrom(str, i + 1)

StripFraction(str) == StripFractionFrom(str, 1)

\* String.prototype.includes
Includes(str, sub) ==
    \E i \in 0..(Len(str) - Len(sub)) : SubSeq(str, i + 1, i + Len(sub)) = sub

\* str.split('T')[0]
BeforeT(str) ==
    IF \E i \in 1..Len(str) : str[i] = "T"
    THEN LET i == CHOOSE k \in 1..Len(str) :
                      str[k] = "T" /\ \A j \in 1..(k - 1) : str[j] # "T"
         IN  SubSeq(str, 1, i - 1)
    ELSE str

\* !x for a string or null
Falsy(str) == str = NullStr \/ str = <<>>

\* lines 588-592
normalizeTimestamp(ts) ==
    IF Falsy(ts) THEN NullStr ELSE ReplaceFirst(ts, "Z", Plus0000)

\* lines 598-625: the callback of history.filter, for one item
MatchStrategy(batchId, itemTs) ==
    LET normalizedRequestId == normalizeTimestamp(batchId)
        itemTimestamp == normalizeTimestamp(itemTs)
        requestDate == IF Falsy(normalizedRequestId) THEN NullStr ELSE BeforeT(normalizedRequestId)
        itemDate == IF Falsy(itemTimestamp) THEN NullStr ELSE BeforeT(itemTimestamp)
    IN  IF Falsy(itemTs) THEN 0
        ELSE IF itemTimestamp = normalizedRequestId THEN 1
        ELSE IF /\ ~Falsy(itemTimestamp) /\ ~Falsy(normalizedRequestId)
                /\ Includes(itemTimestamp, StripFraction(normalizedRequestId)) THEN 2
        ELSE IF ~Falsy(requestDate) /\ ~Falsy(itemDate) /\ requestDate = itemDate THEN 3
        ELSE 0

\* the strings of at most MaxStrLen characters over a few characters, and null
Chars == {"Z", "T", "5", "."}
Strings == UNION {[1..n -> Chars] : n \in 0..MaxStrLen} \cup {NullStr}

\* timestamps: a date, T, a second, a fraction or none, and Z or +00:00
Dates == {<<"1">>, <<"2">>}
Seconds == {<<"3">>, <<"4">>}
Fractions == {<<>>, <<".", "5">>, <<".", "6", "7">>}
Zones == {<<"Z">>, Plus0000}
Ts(d, sec, f, z) == d \o <<"T">> \o sec \o f \o z
TimestampStrings == {Ts(d, sec, f, z) : d \in Dates, sec \in Seconds, f \in Fractions, z \in Zones}

\* a call of normalizeTimestamp, and one of it on the result
Normalize(ts) ==
    /\ lpc = "idle"
    /\ lpc' = "normalized"
    /\ nIn' = ts
    /\ nOut' = normalizeTimestamp(ts)
    /\ nTwice' = normalizeTimestamp(normalizeTimestamp(ts))
    /\ UNCHANGED <<lReq, lStored, lStrategy, lHistory, lFound, lStatus>>
    /\ UNCHANGED <<hIn, hQuery, hGroups, hBatches>>
    /\ UNCHANGED <<gwVars, mlVars, baVars, fuVars, zVars, neVars>>

\* the lookup of batchId meets a history item with batch_timestamp itemTs
LookupItem(batchId, itemTs) ==
    /\ lpc = "idle"
    /\ lpc' = "looked_up"
    /\ lReq' = batchId
    /\ lStored' = itemTs
    /\ lStrategy' = MatchStrategy(batchId, itemTs)
    /\ UNCHANGED <<nIn, nOut, nTwice, lHistory, lFound, lStatus>>
    /\ UNCHANGED <<hIn, hQuery, hGroups, hBatches>>
    /\ UNCHANGED <<gwVars, mlVars, baVars, fuVars, zVars, neVars>>

\* the positions of the items history.filter keeps (lines 598-625)
RECURSIVE FilterHistory(_, _, _)
FilterHistory(batchId, history, k) ==
    IF k > Len(history) THEN <<>>
    ELSE (IF MatchStrategy(batchId, history[k]) # 0 THEN <<k>> ELSE <<>>)
             \o FilterHistory(batchId, history, k + 1)

\* the histories of a lookup: the batch_timestamp of each item
Histories == UNION {[1..n -> TimestampStrings \cup {NullStr}] : n \in 0..MaxHistory}

\* GET /batch/:batchId, lines 580-651: the whole filter and the 404 of an empty result
LookupBatch(batchId, history) ==
    /\ lpc = "idle"
    /\ lpc' = "batch_looked_up"
    /\ lReq' = batchId
    /\ lHistory' = history
    /\ lFound' = FilterHistory(batchId, history, 1)
    /\ lStatus' = IF lFound' = <<>> THEN 404 ELSE 200
    /\ UNCHANGED <<nIn, nOut, nTwice, lStored, lStrategy>>
    /\ UNCHANGED <<hIn, hQuery, hGroups, hBatches>>
    /\ UNCHANGED <<gwVars, mlVars, baVars, fuVars, zVars, neVars>>

(***************************************************************************)
(* BATCH HISTORY  (routes/analysis.js, GET /batch-history)                 *)
(***************************************************************************)
BatchModes == {"batch_image_only", "batch_integrated", "batch_soil_only"}

\* lines 462-467: the records that count as batch analyses
IsBatchRecord(item) == item.mode \in BatchModes \/ ~Falsy(item.batch_timestamp)

\* lines 471-478
PassesModeFilter(mode, item) ==
    CASE mode = "all" -> TRUE
      [] mode = "integrated" -> item.mode = "batch_integrated"
      [] mode = "image_only" -> item.mode = "batch_image_only"
      [] mode = "soil_only" -> item.mode = "batch_soil_only"
      [] OTHER -> TRUE

\* the positions in history of the records that reach the grouping
RECURSIVE BatchHistory(_, _, _)
BatchHistory(mode, history, k) ==
    IF k > Len(history) THEN <<>>
    ELSE (IF IsBatchRecord(history[k]) /\ PassesModeFilter(mode, history[k])
          THEN <<k>> ELSE <<>>) \o BatchHistory(mode, history, k + 1)

\* new Date(date_predicted).toISOString().split('T')[0] + '_batch'
DayKey(day) == <<IF day = 1 THEN "1" ELSE "2">> \o <<"_", "b", "a", "t", "c", "h">>

\* lines 484-485
GroupKey(item) ==
    IF Falsy(item.batch_timestamp) THEN DayKey(item.day) ELSE item.batch_timestamp

\* line 515
CountsHealthy(item) == item.overall_health = "Healthy" \/ item.health_status = "Healthy"

\* lines 487-499
NewGroup(batchId, item) ==
    [batch_id |-> batchId, analyses |-> <<>>, total |-> 0,
     healthy_count |-> 0, unhealthy_count |-> 0, date |-> item.day]

\* lines 501-519
AddToGroup(g, k, item) ==
    [g EXCEPT !.analyses = Append(@, k),
              !.total = @ + 1,
              !.healthy_count = IF CountsHealthy(item) THEN @ + 1 ELSE @,
              !.unhealthy_count = IF CountsHealthy(item) THEN @ ELSE @ + 1]

\* one turn of the forEach of lines 483-520, for the record at position k
GroupOne(groups, k, item) ==
    LET batchId == GroupKey(item)
        opened == IF \E j \in 1..Len(groups) : groups[j].batch_id = batchId
                  THEN groups ELSE Append(groups, NewGroup(batchId, item))
    IN  [j \in 1..Len(opened) |->
            IF opened[j].batch_id = batchId THEN AddToGroup(opened[j], k, item)
            ELSE opened[j]]

RECURSIVE GroupAll(_, _, _, _)
GroupAll(groups, history, positions, n) ==
    IF n > Len(positions) THEN groups
    ELSE GroupAll(GroupOne(groups, positions[n], history[positions[n]]),
                  history, positions, n + 1)

\* lines 522-524: sort by date, newest first (the sort is stable), then slice
InsertByDate(sorted, g) ==
    LET before == SelectSeq(sorted, LAMBDA x : x.date >= g.date)
        after == SelectSeq(sorted, LAMBDA x : x.date < g.date)
    IN  before \o <<g>> \o after

RECURSIVE SortByDate(_, _)
SortByDate(groups, n) ==
    IF n = 0 THEN <<>> ELSE InsertByDate(SortByDate(groups, n - 1), groups[n])

Slice(seq, limit) == SubSeq(seq, 1, IF limit < Len(seq) THEN limit ELSE Len(seq))

\* the records of a history: two spellings of one batch id, another batch id,
\* and none
HistoryTs ==
    {Ts(<<"1">>, <<"3">>, <<>>, <<"Z">>), Ts(<<"1">>, <<"3">>, <<>>, Plus0000),
     Ts(<<"2">>, <<"4">>, <<>>, <<"Z">>), NullStr}
HealthPairs == {<<"Healthy", "Healthy">>, <<"Moderate", "Healthy">>, <<"Unhealthy", "Diseased">>}
HistoryRecords ==
    {[batch_timestamp |-> ts, day |-> d, overall_health |-> hp[1],
      health_status |-> hp[2], mode |-> m] :
         ts \in HistoryTs, d \in 1..2, hp \in HealthPairs,
         m \in {"batch_integrated", "single"}}
HistoryLists == UNION {[1..n -> HistoryRecords] : n \in 0..MaxHistory}
HistoryQueries == {[mode |-> m, limit |-> l] : m \in {"all", "integrated"}, l \in {1, 10}}

\* GET /batch-history, lines 444-541
GroupHistory(history, query) ==
    /\ lpc = "idle"
    /\ lpc' = "grouped"
    /\ hIn' = history
    /\ hQuery' = query
    /\ hGroups' = GroupAll(<<>>, history, BatchHistory(query.mode, history, 1), 1)
    /\ hBatches' = Slice(SortByDate(hGroups', Len(hGroups')), query.limit)
    /\ UNCHANGED <<nIn, nOut, nTwice, lReq, lStored, lStrategy, lHistory, lFound, lStatus>>
    /\ UNCHANGED <<gwVars, mlVars, baVars, fuVars, zVars, neVars>>

LuNext ==
    \/ /\ lpc = "idle"
       /\ \E ts \in Strings \cup TimestampStrings : Normalize(ts)
    \/ /\ lpc = "idle"
       /\ \E batchId \in TimestampStrings, itemTs \in TimestampStrings \cup {NullStr} :
              LookupItem(batchId, itemTs)
    \/ /\ lpc = "idle"
       /\ \E batchId \in TimestampStrings, history \in Histories :
              LookupBatch(batchId, history)
    \/ /\ lpc = "idle"
       /\ \E history \in HistoryLists, query \in HistoryQueries :
              GroupHistory(history, query)

SpecLookup == Init /\ [][LuNext]_vars

EndsWithZ(str) == Len(str) > 0 /\ str # NullStr /\ str[Len(str)] = "Z"

SameSecondOtherFraction(a, b) ==
    \E d \in Dates, sec \in Seconds, f1, f2 \in Fractions \ {<<>>} :
        /\ f1 # f2
        /\ a = Ts(d, sec, f1, <<"Z">>)
        /\ b = Ts(d, sec, f2, Plus0000)

(***************************************************************************)
(* C18: in the batch lookup, a requested identifier and a stored one that  *)
(* denote the same second and differ only in their fractional-second       *)
(* digits and in Z versus +00:00 are matched by the contains-match         *)
(* strategy; the match does not depend on the date-only fallback.          *)
(***************************************************************************)
C18_ContainsMatchIgnoresFraction ==
    (lpc = "looked_up" /\ SameSecondOtherFraction(lReq, lStored)) => lStrategy = 2


(***************************************************************************)
(* LATE FUSION  (lateFusionService): categorization                        *)
(***************************************************************************)
scoreToHealthCategoryStrict(c) ==
    IF c > 800 THEN "Healthy"
    ELSE IF c > 600 THEN "Moderate"
    ELSE IF c > 400 THEN "Unhealthy"
    ELSE IF c > 200 THEN "Critical"
    ELSE "Unknown"

\* part_001 lines 205-211, on ten times the score
scoreToHealthCategory(c) ==
    IF c >= 800 THEN "Healthy"
    ELSE IF c >= 600 THEN "Moderate"
    ELSE IF c >= 400 THEN "Unhealthy"
    ELSE IF c >= 200 THEN "Critical"
    ELSE "Unknown"

\* scores in tenths, from below 0 to above 100
Scores10 == (-10)..1010
\* the second score: around every threshold
Scores10Near == {-10, 0, 199, 200, 201, 399, 400, 401, 599, 600, 601, 799, 800, 801, 1000, 1010}

\* both categorizations of one score, and scoreToHealthCategory of another
Categorize(c1, c2) ==
    /\ fpc = "idle"
    /\ fpc' = "categorized"
    /\ fScore' = c1
    /\ fScore2' = c2
    /\ fCat' = scoreToHealthCategory(c1)
    /\ fCat2' = scoreToHealthCategory(c2)
    /\ fCatInline' = Category10(c1)
    /\ UNCHANGED <<fRecsIn, fRecsOut>>
    /\ UNCHANGED <<gwVars, mlVars, baVars, luVars, zVars, neVars>>

CatNext ==
    /\ fpc = "idle"
    /\ \E c1 \in Scores10, c2 \in Scores10Near : Categorize(c1, c2)

SpecCategorize == Init /\ [][CatNext]_vars

\* how healthy a category is
HealthRank(cat) ==
    CASE cat = "Healthy" -> 4
      [] cat = "Moderate" -> 3
      [] cat = "Unhealthy" -> 2
      [] cat = "Critical" -> 1
      [] OTHER -> 0

(***************************************************************************)
(* C19: the health category of a combined score is >= 80 Healthy, >= 60    *)
(* Moderate, >= 40 Unhealthy, >= 20 Critical, else Unknown; exactly 80,    *)
(* 60, 40, 20 map to the upper bucket; for s1 < s2 category(s1) is never   *)
(* healthier than category(s2); scoreToHealthCategory and the inline       *)
(* categorization of fuseSinglePair agree on every score.                  *)
(***************************************************************************)
C19_Categorization ==
    fpc = "categorized" =>
    /\ (fCat = "Healthy") = (fScore >= 800)
    /\ (fCat = "Moderate") = (fScore >= 600 /\ fScore < 800)
    /\ (fCat = "Unhealthy") = (fScore >= 400 /\ fScore < 600)
    /\ (fCat = "Critical") = (fScore >= 200 /\ fScore < 400)
    /\ (fCat = "Unknown") = (fScore < 200)
    /\ fScore < fScore2 => HealthRank(fCat) <= HealthRank(fCat2)
    /\ fCatInline = fCat

C19_Witness ==
    /\ fScore = 800 /\ fCat = "Healthy"
    /\ fScore2 = 801


(***************************************************************************)
(* LATE FUSION  (lateFusionService): recommendations                       *)
(***************************************************************************)
UpperLetters == <<"A", "B", "C", "D", "E", "F", "G", "H", "I", "J", "K", "L", "M", "N", "O", "P", "Q", "R", "S", "T", "U", "V", "W", "X", "Y", "Z">>
LowerLetters == <<"a", "b", "c", "d", "e", "f", "g", "h", "i", "j", "k", "l", "m", "n", "o", "p", "q", "r", "s", "t", "u", "v", "w", "x", "y", "z">>

\* String.prototype.toLowerCase, one character
LowerChar(ch) ==
    IF \E k \in 1..Len(UpperLetters) : UpperLetters[k] = ch
    THEN LowerLetters[CHOOSE k \in 1..Len(UpperLetters) : UpperLetters[k] = ch]
    ELSE ch

ToLowerCase(str) == [k \in 1..Len(str) |-> LowerChar(str[k])]

\* String.prototype.trim
RECURSIVE TrimStart(_)
TrimStart(str) ==
    IF Len(str) > 0 /\ str[1] = " " THEN TrimStart(Tail(str)) ELSE str

RECURSIVE TrimEnd(_)
TrimEnd(str) ==
    IF Len(str) > 0 /\ str[Len(str)] = " " THEN TrimEnd(SubSeq(str, 1, Len(str) - 1)) ELSE str

Trim(str) == TrimEnd(TrimStart(str))

\* recommendations a worker may give; NullStr stands for an entry that is not a string
RecDestroy == <<"D", "e", "s", "t", "r", "o", "y", " ", "i", "n", "f", "e", "c", "t", "e", "d", " ", "l", "e", "a", "v", "e", "s">>
RecDestroyLower == <<"d", "e", "s", "t", "r", "o", "y", " ", "i", "n", "f", "e", "c", "t", "e", "d", " ", "l", "e", "a", "v", "e", "s", " ">>
RecApply == <<"A", "p", "p", "l", "y", " ", "f", "u", "n", "g", "i", "c", "i", "d", "e">>
RecContinue == <<"C", "o", "n", "t", "i", "n", "u", "e", " ", "m", "o", "n", "i", "t", "o", "r", "i", "n", "g">>
RecRemoveTreat == <<"R", "e", "m", "o", "v", "e", " ", "a", "n", "d", " ", "t", "r", "e", "a", "t">>
RecPrune == <<"P", "r", "u", "n", "e">>
RecEmpty == <<>>
RecBlank == <<" ">>
RecPool == {RecDestroy, RecDestroyLower, RecApply, RecContinue, RecRemoveTreat,
            RecPrune, RecEmpty, RecBlank, NullStr}

NormalizedNoLower(rec) == Trim(rec)
\* part_001 line 230: rec.toLowerCase().trim()
Normalized(rec) == Trim(ToLowerCase(rec))

\* rec.toLowerCase().trim() of every recommendation of the pool, computed once
NormalizedOf == [rec \in RecPool |-> Normalized(rec)]

\* part_001 line 229: !rec || typeof rec !== 'string'
Rejected(rec) == rec = NullStr \/ rec = <<>>

\* part_001 lines 227-236
RECURSIVE RemoveFrom(_, _, _)
RemoveFrom(recs, i, seen) ==
    IF i > Len(recs) THEN <<>>
    ELSE IF Rejected(recs[i]) \/ NormalizedOf[recs[i]] \in seen
         THEN RemoveFrom(recs, i + 1, seen)
         ELSE <<recs[i]>> \o RemoveFrom(recs, i + 1, seen \cup {NormalizedOf[recs[i]]})

removeDuplicates(recommendations) == RemoveFrom(recommendations, 1, {})

\* part_001 lines 239-241
highPriorityKeywords ==
    {<<"i", "m", "m", "e", "d", "i", "a", "t", "e">>,
     <<"u", "r", "g", "e", "n", "t">>,
     <<"c", "r", "i", "t", "i", "c", "a", "l">>,
     <<"s", "e", "v", "e", "r", "e">>,
     <<"d", "e", "s", "t", "r", "o", "y">>,
     <<"r", "e", "m", "o", "v", "e">>}
mediumPriorityKeywords ==
    {<<"a", "p", "p", "l", "y">>,
     <<"t", "r", "e", "a", "t">>,
     <<"f", "u", "n", "g", "i", "c", "i", "d", "e">>,
     <<"f", "e", "r", "t", "i", "l", "i", "z", "e", "r">>,
     <<"n", "u", "t", "r", "i", "e", "n", "t">>,
     <<"w", "a", "t", "e", "r">>}
lowPriorityKeywords ==
    {<<"m", "a", "i", "n", "t", "a", "i", "n">>,
     <<"c", "o", "n", "t", "i", "n", "u", "e">>,
     <<"m", "o", "n", "i", "t", "o", "r", "i", "n", "g">>,
     <<"p", "r", "e", "v", "e", "n", "t">>}

\* keywords.some(keyword => lowerRec.includes(keyword))
SomeIncluded(keywords, rec) == \E keyword \in keywords : Includes(ToLowerCase(rec), keyword)

\* part_001 lines 248-256: the list rec is pushed to
Bucket(rec) ==
    IF SomeIncluded(highPriorityKeywords, rec) THEN "high"
    ELSE IF SomeIncluded(mediumPriorityKeywords, rec) THEN "medium"
    ELSE IF SomeIncluded(lowPriorityKeywords, rec) THEN "low"
    ELSE "medium"

\* the bucket of every recommendation of the pool, computed once
BucketOf == [rec \in RecPool |-> Bucket(rec)]

\* part_001 lines 238-260
prioritizeRecommendations(recommendations) ==
    SelectSeq(recommendations, LAMBDA rec : BucketOf[rec] = "high")
        \o SelectSeq(recommendations, LAMBDA rec : BucketOf[rec] = "medium")
        \o SelectSeq(recommendations, LAMBDA rec : BucketOf[rec] = "low")

\* part_001 lines 221-225
combineRecommendations(imageRecs, soilRecs) ==
    prioritizeRecommendations(removeDuplicates(imageRecs \o soilRecs))

RecLists(n) == UNION {[1..k -> RecPool] : k \in 0..n}

Combine(imageRecs, soilRecs) ==
    /\ fpc = "idle"
    /\ fpc' = "combined"
    /\ fRecsIn' = imageRecs \o soilRecs
    /\ fRecsOut' = combineRecommendations(imageRecs, soilRecs)
    /\ UNCHANGED <<fScore, fScore2, fCat, fCat2, fCatInline>>
    /\ UNCHANGED <<gwVars, mlVars, baVars, luVars, zVars, neVars>>

RecNext ==
    /\ fpc = "idle"
    /\ \E imageRecs \in RecLists(MaxRecs) :
           \E soilRecs \in RecLists(MaxRecs - Len(imageRecs)) : Combine(imageRecs, soilRecs)

SpecRecommend == Init /\ [][RecNext]_vars

\* the priority the claim gives a string: the highest one it has a keyword of,
\* medium when it has none
ClaimedRankOf(rec) ==
    IF SomeIncluded(highPriorityKeywords, rec) THEN 1
    ELSE IF SomeIncluded(mediumPriorityKeywords, rec) THEN 2
    ELSE IF SomeIncluded(lowPriorityKeywords, rec) THEN 3
    ELSE 2

ClaimedRanks == [rec \in RecPool |-> ClaimedRankOf(rec)]
ClaimedRank(rec) == ClaimedRanks[rec]

LowerTrimmed == [rec \in RecPool |-> Trim(ToLowerCase(rec))]
SameUnderCaseAndSpace(a, b) == LowerTrimmed[a] = LowerTrimmed[b]

\* the positions of the input that count as input strings: IsInput(i)
FirstOccurrence(IsInput(_), i) ==
    CHOOSE j \in 1..Len(fRecsIn) :
        /\ IsInput(j) /\ SameUnderCaseAndSpace(fRecsIn[j], fRecsIn[i])
        /\ \A k \in 1..(j - 1) :
               ~(IsInput(k) /\ SameUnderCaseAndSpace(fRecsIn[k], fRecsIn[i]))

\* position in the input of the output element at k
InputPos(k) == CHOOSE j \in 1..Len(fRecsIn) :
                   fRecsIn[j] = fRecsOut[k] /\ \A m \in 1..(j - 1) : fRecsIn[m] # fRecsOut[k]

\* the output is exactly the first occurrences of the input strings, each once,
\* high before medium before low, input order kept inside a bucket
CombinedAsClaimed(IsInput(_)) ==
    /\ \A i \in 1..Len(fRecsIn) :
           IsInput(i) =>
               \E k \in 1..Len(fRecsOut) :
                   /\ fRecsOut[k] = fRecsIn[FirstOccurrence(IsInput, i)]
                   /\ \A m \in 1..Len(fRecsOut) :
                          SameUnderCaseAndSpace(fRecsOut[m], fRecsIn[i]) => m = k
    /\ \A k \in 1..Len(fRecsOut) :
           \E i \in 1..Len(fRecsIn) :
               IsInput(i) /\ fRecsOut[k] = fRecsIn[FirstOccurrence(IsInput, i)]
    /\ \A a, b \in 1..Len(fRecsOut) :
           a < b => /\ ClaimedRank(fRecsOut[a]) <= ClaimedRank(fRecsOut[b])
                    /\ ClaimedRank(fRecsOut[a]) = ClaimedRank(fRecsOut[b])
                           => InputPos(a) < InputPos(b)

IsStringAt(i) == fRecsIn[i] # NullStr
IsNonEmptyStringAt(i) == fRecsIn[i] # NullStr /\ fRecsIn[i] # <<>>

(***************************************************************************)
(* C20 (as stated): the output of combineRecommendations contains exactly  *)
(* the first occurrence of each input string that is distinct under        *)
(* lower-casing and trimming, each once; high-priority items come before   *)
(* medium before low; a string with keywords of several priorities takes   *)
(* the highest, an unmatched string is medium; the input order is kept     *)
(* inside each bucket.                                                     *)
(***************************************************************************)
C20_CombineRecommendations ==
    fpc = "combined" => CombinedAsClaimed(IsStringAt)

(***************************************************************************)
(* C20 (amended): the same, for the non-empty input strings: the empty     *)
(* string is dropped.                                                      *)
(***************************************************************************)
C20_CombineRecommendationsNonEmpty ==
    fpc = "combined" => CombinedAsClaimed(IsNonEmptyStringAt)

C20_Witness ==
    /\ fpc = "combined"
    /\ fRecsIn = <<RecContinue, RecDestroyLower, RecDestroy>>
    /\ fRecsOut = <<RecDestroyLower, RecContinue>>


(***************************************************************************)
(* LATE FUSION  (lateFusionService): performLateFusion and fuseSinglePair  *)
(***************************************************************************)
\* x || 0 of a score (performLateFusion, lines 26-27)
ScoreOrZero(x) == IF x \in {NullVal, AbsentVal} THEN 0 ELSE x

\* the pairs of whole scores for which the double 0.7 * plant + 0.3 * soil is
\* below a threshold that the exact sum reaches (IEEE 754: 0.7 * 92 + 0.3 * 52
\* is 79.99999999999999); for no pair of whole scores it is above one that
\* the exact sum misses
WeightedSumBelowThreshold ==
    {<<2, 62>>, <<23, 13>>, <<46, 26>>, <<48, 88>>, <<63, 53>>, <<66, 46>>,
     <<78, 18>>, <<81, 11>>, <<92, 52>>}

\* part_001 lines 109-128: overallHealth of fuseSinglePair
WeightedHealth(plantScore, soilScore) ==
    LET plant == IF plantScore = AbsentVal THEN 50 ELSE plantScore
        soil == IF soilScore = AbsentVal THEN 50 ELSE soilScore
    IN  IF plant = NullVal \/ soil = NullVal THEN "Unknown"
        ELSE IF <<plant, soil>> \in WeightedSumBelowThreshold
             THEN Category10(7 * plant + 3 * soil - 1)
             ELSE Category10(7 * plant + 3 * soil)

\* part_001 lines 26-36: overallHealth of performLateFusion
AverageHealth(plantScore, soilScore) ==
    scoreToHealthCategory(5 * (ScoreOrZero(plantScore) + ScoreOrZero(soilScore)))

\* x || 0.5 of a confidence, in hundredths (lines 18, 23, 101, 106, 215, 216)
ConfOrHalf(x) == IF x \in {NullVal, AbsentVal, 0} THEN 50 ELSE x

\* Math.round(((a + b) / 2) * 100) / 100, in hundredths (lines 131 and 217)
MeanConfidence(a, b) == (ConfOrHalf(a) + ConfOrHalf(b) + 1) \div 2

\* an entry that is a string
IsText(item) == item # NullStr

\* part_001 lines 262-268, for an array
formatForStorage(items) ==
    IF Len(items) = 0 THEN [placeholder |-> TRUE, items |-> <<>>]
    ELSE [placeholder |-> FALSE,
          items |-> SelectSeq(items, LAMBDA item : item # <<>> /\ Trim(item) # <<>>)]

\* item.trim() of an entry that is not a string throws
FormatThrows(items) == \E k \in 1..Len(items) : ~IsText(items[k])

Fused(overall, img, soil) ==
    [kind |-> "fused", overall |-> overall,
     conf |-> MeanConfidence(img.conf, soil.conf),
     recs |-> formatForStorage(combineRecommendations(img.recs, soil.recs)),
     issues |-> formatForStorage(soil.issues)]

\* the throw of performLateFusion (lines 82-85)
FusionRejected == [NoFusionOutput EXCEPT !.kind = "rejected"]

\* what the catch of fuseSinglePair returns (lines 161-181)
FusionFallback ==
    [kind |-> "fallback", overall |-> "Unknown", conf |-> 0,
     recs |-> [placeholder |-> FALSE, items |-> <<>>],
     issues |-> [placeholder |-> FALSE, items |-> <<>>]]

\* part_001 line 8
BothSuccessful(img, soil) == img.given /\ img.success /\ soil.given /\ soil.success

\* part_001 line 93
BothProvided(img, soil) == img.given /\ soil.given

\* part_001 lines 4-85; storeOk: the insert of storeFusedResults succeeds
performLateFusion(img, soil, storeOk) ==
    IF ~BothSuccessful(img, soil) THEN FusionRejected
    ELSE IF FormatThrows(soil.issues) \/ ~storeOk THEN FusionRejected
    ELSE Fused(AverageHealth(img.score, soil.score), img, soil)

\* part_001 lines 89-182
fuseSinglePair(img, soil) ==
    IF ~BothProvided(img, soil) THEN FusionFallback
    ELSE IF FormatThrows(soil.issues) THEN FusionFallback
    ELSE Fused(WeightedHealth(img.score, soil.score), img, soil)

\* the inputs: a typical pair, varied in its scores, or in its flags, or in
\* its confidences, or in its lists
WholeScores == 0..100
ScoreInputs == WholeScores \cup {NullVal, AbsentVal}
ConfInputs == {AbsentVal, 0, 10, 20, 30, 40, 50, 60, 70, 80, 90, 100}
IssuePool == {<<"p", "H">>, RecBlank, RecEmpty, NullStr}
FuseRecPool == {RecApply, RecBlank, RecEmpty}
ShortLists(pool) == UNION {[1..k -> pool] : k \in 0..2}

TypicalImage == [given |-> TRUE, success |-> TRUE, score |-> 90, conf |-> 80,
                 issues |-> <<>>, recs |-> <<RecApply>>]
TypicalSoil == [given |-> TRUE, success |-> TRUE, score |-> 70, conf |-> 60,
                issues |-> <<>>, recs |-> <<>>]

FusionInputs ==
    {<<[TypicalImage EXCEPT !.score = a], [TypicalSoil EXCEPT !.score = b]>> :
         a \in ScoreInputs, b \in ScoreInputs}
    \cup {<<[TypicalImage EXCEPT !.conf = a], [TypicalSoil EXCEPT !.conf = b]>> :
         a \in ConfInputs, b \in ConfInputs}
    \cup {<<[TypicalImage EXCEPT !.given = g1, !.success = s1],
            [TypicalSoil EXCEPT !.given = g2, !.success = s2]>> :
         g1 \in BOOLEAN, s1 \in BOOLEAN, g2 \in BOOLEAN, s2 \in BOOLEAN}
    \cup {<<[TypicalImage EXCEPT !.recs = r], [TypicalSoil EXCEPT !.issues = i]>> :
         r \in ShortLists(FuseRecPool), i \in ShortLists(IssuePool)}

PerformLateFusion(img, soil, storeOk) ==
    /\ zpc = "idle"
    /\ zpc' = "called"
    /\ zPath' = "single"
    /\ zImg' = img
    /\ zSoil' = soil
    /\ zOut' = performLateFusion(img, soil, storeOk)
    /\ UNCHANGED <<gwVars, mlVars, baVars, luVars, fuVars, neVars>>

FuseSinglePair(img, soil) ==
    /\ zpc = "idle"
    /\ zpc' = "called"
    /\ zPath' = "batch"
    /\ zImg' = img
    /\ zSoil' = soil
    /\ zOut' = fuseSinglePair(img, soil)
    /\ UNCHANGED <<gwVars, mlVars, baVars, luVars, fuVars, neVars>>


(***************************************************************************)
(* INFERENCE INVOKER  (mlService.js): integratedAnalysis                   *)
(***************************************************************************)
\* MLService defines getImageFallbackAnalysis (line 719) and
\* getSoilFallbackAnalysis (line 742); no getIntegratedFallbackAnalysis
\* exists in the class or anywhere in the repository
HasIntegratedFallback == FALSE

\* the catch of integratedAnalysis (lines 687-690): calling a method that does
\* not exist throws a TypeError out of the catch block
IntegratedCatch ==
    IF HasIntegratedFallback
    THEN [NoFusionOutput EXCEPT !.kind = "fallback"]
    ELSE [NoFusionOutput EXCEPT !.kind = "raised"]

\* mlService.js lines 608-691
integratedAnalysis(img, soil, storeOk) ==
    IF ~img.given \/ ~soil.given THEN IntegratedCatch
    ELSE IF ~img.success \/ ~soil.success THEN IntegratedCatch
    ELSE IF performLateFusion(img, soil, storeOk).kind = "rejected" THEN IntegratedCatch
    ELSE [performLateFusion(img, soil, storeOk) EXCEPT !.kind = "returned"]

IntegratedAnalysis(img, soil, storeOk) ==
    /\ zpc = "idle"
    /\ zpc' = "called"
    /\ zPath' = "integrated"
    /\ zImg' = img
    /\ zSoil' = soil
    /\ zOut' = integratedAnalysis(img, soil, storeOk)
    /\ UNCHANGED <<gwVars, mlVars, baVars, luVars, fuVars, neVars>>

FuseNext ==
    \/ /\ zpc = "idle"
       /\ \E pair \in FusionInputs, storeOk \in BOOLEAN :
              PerformLateFusion(pair[1], pair[2], storeOk)
    \/ /\ zpc = "idle"
       /\ \E pair \in FusionInputs : FuseSinglePair(pair[1], pair[2])
    \/ /\ zpc = "idle"
       /\ \E pair \in FusionInputs, storeOk \in BOOLEAN :
              IntegratedAnalysis(pair[1], pair[2], storeOk)

SpecFuse == Init /\ [][FuseNext]_vars

FusionCalled == zpc = "called" /\ zPath \in {"single", "batch"}

(***************************************************************************)
(* C21: no fused verdict is produced when either input is unsuccessful:    *)
(* performLateFusion and fuseSinglePair both reject a pair in which the    *)
(* image result or the soil result has success = false.                    *)
(***************************************************************************)
C21_FusionRejectsUnsuccessful ==
    (FusionCalled /\ (~zImg.success \/ ~zSoil.success)) => zOut.kind # "fused"


\* the category of a score given in tenths, as section 4.3 states it
ClaimedCategory10(c) ==
    CASE c >= 800 -> "Healthy"
      [] c >= 600 /\ c < 800 -> "Moderate"
      [] c >= 400 /\ c < 600 -> "Unhealthy"
      [] c >= 200 /\ c < 400 -> "Critical"
      [] OTHER -> "Unknown"

AbsentAsZero(x) == IF x = AbsentVal THEN 0 ELSE x

(***************************************************************************)
(* C22: for every pair of scores plant, soil in 0..100, performLateFusion  *)
(* categorizes (plant + soil) / 2 and fuseSinglePair categorizes           *)
(* 0.7 * plant + 0.3 * soil; an absent score is read as 0 in both paths;   *)
(* so (90, 70) is Healthy under both.                                      *)
(***************************************************************************)
C22_WeightingPolicies ==
    (/\ FusionCalled /\ zOut.kind = "fused"
     /\ zImg.score \in WholeScores \cup {AbsentVal}
     /\ zSoil.score \in WholeScores \cup {AbsentVal})
        => LET plant == AbsentAsZero(zImg.score)
               soil == AbsentAsZero(zSoil.score)
           IN  /\ zPath = "single" => zOut.overall = ClaimedCategory10(5 * (plant + soil))
               /\ zPath = "batch" => zOut.overall = ClaimedCategory10(7 * plant + 3 * soil)

(***************************************************************************)
(* C23: for every pair of input confidences that are present, including    *)
(* the 0 of a fallback result, the combined confidence is their mean       *)
(* rounded to 2 decimals; the default 0.5 is used only for a confidence    *)
(* that is absent; (0.8, 0.6) gives 0.70.                                  *)
(***************************************************************************)
C23_CombinedConfidence ==
    (FusionCalled /\ zOut.kind = "fused")
        => LET a == IF zImg.conf = AbsentVal THEN 50 ELSE zImg.conf
               b == IF zSoil.conf = AbsentVal THEN 50 ELSE zSoil.conf
           IN  zOut.conf = (a + b + 1) \div 2

(***************************************************************************)
(* C24: when a fused verdict is serialized, an empty soil-issue list       *)
(* becomes the literal "No issues found", an empty recommendation list     *)
(* becomes empty and never that placeholder, and entries that are empty or *)
(* whitespace-only are dropped from both lists.                            *)
(***************************************************************************)
C24_SerializationPlaceholders ==
    (FusionCalled /\ zOut.kind = "fused")
        => /\ zSoil.issues = <<>> => zOut.issues.placeholder
           /\ ~zOut.recs.placeholder
           /\ \A k \in 1..Len(zOut.recs.items) : Trim(zOut.recs.items[k]) # <<>>
           /\ \A k \in 1..Len(zOut.issues.items) : Trim(zOut.issues.items[k]) # <<>>

(***************************************************************************)
(* C27: integratedAnalysis never raises: when the image or soil input is   *)
(* unsuccessful, or when late fusion or its storage fails, it returns a    *)
(* fallback result object instead of throwing.                             *)
(***************************************************************************)
C27_IntegratedNeverRaises ==
    (zpc = "called" /\ zPath = "integrated") => zOut.kind \in {"returned", "fallback"}


(***************************************************************************)
(* C28: the stored_count reported by storeBatchAnalysisResults equals the  *)
(* number of rows actually inserted, also when the primary insert and the  *)
(* fallback insert of an item both return an error.                        *)
(***************************************************************************)
C28_StoredCountIsInsertedRows ==
    bStorage.kind = "summary" => bStorage.stored_count = Len(db)

(***************************************************************************)
(* C30: in recent mode every stored verdict whose observation carries a    *)
(* batch id is stored under that observation's own batch id, so verdicts   *)
(* of observations from different upload batches are never stored under    *)
(* one shared batch id.                                                    *)
(***************************************************************************)
C30_RecentModeKeepsOwnBatchId ==
    bSel.mode = "recent"
        => /\ \A k \in 1..Len(db) :
                  bImages[db[k].image_id] # NullTs
                      => db[k].batch_timestamp = bImages[db[k].image_id]
           /\ \A k, l \in 1..Len(db) :
                  (/\ bImages[db[k].image_id] # NullTs
                   /\ bImages[db[l].image_id] # NullTs
                   /\ bImages[db[k].image_id] # bImages[db[l].image_id])
                      => db[k].batch_timestamp # db[l].batch_timestamp


\* the strategy that keeps item k of the history of the lookup
StrategyOf(k) == MatchStrategy(lReq, lHistory[k])
FoundSet == {lFound[j] : j \in 1..Len(lFound)}
StrategySet(n) == {k \in 1..Len(lHistory) : StrategyOf(k) = n}

(***************************************************************************)
(* C25: the batch lookup applies its three matching strategies in order    *)
(* and stops at the first that yields a non-empty set: when a stored       *)
(* record matches the request exactly after normalization the result holds *)
(* only exact matches (no record of another batch of the same day), and    *)
(* date-only matches are returned only when neither the exact nor the      *)
(* contains strategy matched any record.                                   *)
(***************************************************************************)
C25_FirstNonEmptyStrategy ==
    lpc = "batch_looked_up"
        => FoundSet = IF StrategySet(1) # {} THEN StrategySet(1)
                      ELSE IF StrategySet(2) # {} THEN StrategySet(2)
                      ELSE StrategySet(3)

\* the positions in hIn of the records that are grouped
GroupedRecords ==
    LET ps == BatchHistory(hQuery.mode, hIn, 1) IN {ps[j] : j \in 1..Len(ps)}
MembersOf(g) == {g.analyses[j] : j \in 1..Len(g.analyses)}
SameIdZAndOffset(a, b) ==
    /\ EndsWithZ(a)
    /\ b = SubSeq(a, 1, Len(a) - 1) \o Plus0000

(***************************************************************************)
(* C26: the history grouping partitions the batch records: every record is *)
(* in exactly one group, each group has total = healthy_count +            *)
(* unhealthy_count = number of its analyses, and two records whose         *)
(* batch_timestamp is the same identifier written once with Z and once     *)
(* with +00:00 are in the same group.                                      *)
(***************************************************************************)
C26_HistoryGroupingPartitions ==
    lpc = "grouped"
        => /\ \A k \in GroupedRecords :
                  \E j \in 1..Len(hGroups) :
                      /\ k \in MembersOf(hGroups[j])
                      /\ \A i \in 1..Len(hGroups) : k \in MembersOf(hGroups[i]) => i = j
           /\ \A j \in 1..Len(hGroups) :
                  /\ hGroups[j].total = hGroups[j].healthy_count + hGroups[j].unhealthy_count
                  /\ hGroups[j].total = Len(hGroups[j].analyses)
                  /\ Cardinality(MembersOf(hGroups[j])) = Len(hGroups[j].analyses)
           /\ \A k, l \in GroupedRecords :
                  SameIdZAndOffset(hIn[k].batch_timestamp, hIn[l].batch_timestamp)
                      => \E j \in 1..Len(hGroups) :
                             k \in MembersOf(hGroups[j]) /\ l \in MembersOf(hGroups[j])


(***************************************************************************)
(* PERSISTENCE GATEWAY: nested gateway methods.  The gateway is ready, so  *)
(* the gate of lines 58-63 passes in the outer and in the inner call, and  *)
(* the errors are errors of the store, which do not name readiness.        *)
(***************************************************************************)
\* maxRetries = 2, the default of _executeWithRetry that every method uses
DefaultMaxRetries == 2

NestedMethods == {"getBatchWithTimestampCorrection", "deleteUserImages"}
StoreResults == {"fail", "empty", "data"}

\* the outer method is called: its _executeWithRetry enters attempt 1 and
\* the operation calls the inner method, which enters its own attempt 1
NestedStart(method) ==
    /\ xpc = "idle"
    /\ UNCHANGED <<gwVars, mlVars, baVars, luVars, fuVars, zVars>>
    /\ xMethod' = method
    /\ xOuterAttempt' = 1
    /\ xInnerAttempt' = 1
    /\ xpc' = "inner"
    /\ UNCHANGED <<xLog, xOutcome>>

\* the catch of the outer _executeWithRetry (lines 69-83)
OuterCatch ==
    IF xOuterAttempt < DefaultMaxRetries
    THEN xpc' = "outer_backoff" /\ UNCHANGED xOutcome
    ELSE xpc' = "done" /\ xOutcome' = "threw"

\* the select of getBatchAnalyses (lines 962-967) or of getUserImages
\* (lines 580-585) settles
InnerStoreCall(res) ==
    /\ xpc = "inner"
    /\ UNCHANGED <<gwVars, mlVars, baVars, luVars, fuVars, zVars>>
    /\ xLog' = Append(xLog, <<"inner", res>>)
    /\ CASE res = "fail" ->
                IF xInnerAttempt < DefaultMaxRetries
                THEN xpc' = "inner_backoff" /\ UNCHANGED xOutcome
                ELSE OuterCatch
         [] res = "empty" ->
                IF xMethod = "deleteUserImages"
                THEN xpc' = "done" /\ xOutcome' = "returned"
                ELSE xpc' = "second" /\ UNCHANGED xOutcome
         [] OTHER ->
                IF xMethod = "deleteUserImages"
                THEN xpc' = "remove" /\ UNCHANGED xOutcome
                ELSE xpc' = "done" /\ xOutcome' = "returned"
    /\ UNCHANGED <<xMethod, xOuterAttempt, xInnerAttempt>>

\* the backoff timer of the inner loop fires (lines 74-75)
InnerBackoffDone ==
    /\ xpc = "inner_backoff"
    /\ UNCHANGED <<gwVars, mlVars, baVars, luVars, fuVars, zVars>>
    /\ xInnerAttempt' = xInnerAttempt + 1
    /\ xpc' = "inner"
    /\ UNCHANGED <<xMethod, xOuterAttempt, xLog, xOutcome>>

\* the backoff timer of the outer loop fires: the operation runs again and
\* calls the inner method anew
OuterBackoffDone ==
    /\ xpc = "outer_backoff"
    /\ UNCHANGED <<gwVars, mlVars, baVars, luVars, fuVars, zVars>>
    /\ xOuterAttempt' = xOuterAttempt + 1
    /\ xInnerAttempt' = 1
    /\ xpc' = "inner"
    /\ UNCHANGED <<xMethod, xLog, xOutcome>>

\* a store call of the outer operation itself settles: the second select of
\* getBatchWithTimestampCorrection (lines 991-998), the storage remove
\* (lines 672-676) or the delete (lines 679-684) of deleteUserImages
OuterStoreCall(ok) ==
    /\ xpc \in {"second", "remove", "delete"}
    /\ UNCHANGED <<gwVars, mlVars, baVars, luVars, fuVars, zVars>>
    /\ xLog' = Append(xLog, <<xpc, IF ok THEN "data" ELSE "fail">>)
    /\ IF ~ok THEN OuterCatch
       ELSE IF xpc = "remove" THEN xpc' = "delete" /\ UNCHANGED xOutcome
       ELSE xpc' = "done" /\ xOutcome' = "returned"
    /\ UNCHANGED <<xMethod, xOuterAttempt, xInnerAttempt>>

NeNext ==
    \/ \E method \in NestedMethods : NestedStart(method)
    \/ \E res \in StoreResults : InnerStoreCall(res)
    \/ InnerBackoffDone
    \/ OuterBackoffDone
    \/ \E ok \in BOOLEAN : OuterStoreCall(ok)

SpecNested == Init /\ [][NeNext]_vars

\* the calls of the store call of the inner method, and whether it always failed
InnerCalls == SelectSeq(xLog, LAMBDA e : e[1] = "inner")
InnerAlwaysFails == \A k \in 1..Len(InnerCalls) : InnerCalls[k][2] = "fail"

(***************************************************************************)
(* C29: for a gateway method whose operation calls another gateway method  *)
(* (getBatchWithTimestampCorrection calling getBatchAnalyses,              *)
(* deleteUserImages calling getUserImages), an underlying store call that  *)
(* always fails is attempted at most maxRetries (2) times in total before  *)
(* the outer call fails.                                                   *)
(***************************************************************************)
C29_NestedRetriesBounded ==
    InnerAlwaysFails => Len(InnerCalls) <= DefaultMaxRetries


====
